---- MODULE Spec2Model ----
(***************************************************************************)
(* Amazon Prime import workflow of movie-ranking:                          *)
(*   app/services/import_session.py  (ImportSessionStore)                  *)
(*   app/routers/import_amazon.py    (upload/get/add/skip/match/cancel)    *)
(*   app/database.py                 (one transaction per request)         *)
(*                                                                         *)
(* The handlers are asyncio coroutines on one event loop: code between two *)
(* awaits runs without interleaving, every await (datastore or catalog     *)
(* call) is a point where other requests run.  One action of the model is  *)
(* one such uninterrupted stretch of a handler.                            *)
(***************************************************************************)
EXTENDS Integers, Sequences, FiniteSets, TLC

\* ---------------------------------------------------------------- bounds
MaxSessions == 2      \* session ids ever generated (uuid4 values, never reused)
MaxTime == 60         \* the clock stops advancing here (minutes)
TickStep == 30        \* granularity of the clock (minutes)
CapSlack == 2         \* match results have up to MAX_MOVIES_PER_SESSION + CapSlack items

\* ------------------------------------------------------ program constants
SESSION_TTL_MINUTES == 30
MAX_MOVIES_PER_SESSION == 500

\* ------------------------------------------------------------ input sets
Users == {"u1", "u2"}
Reqs == {"r1", "r2"}                 \* request slots that can be in flight at once
SessionIds == 1..MaxSessions
TmdbIds == {11, 12}
Ratings == {2, 5}                    \* ImportMovieAddRequest.rating, within 1..5

\* Optional values: <<>> is Python's None, <<x>> is the value x.
None == <<>>
Some(x) == <<x>>

\* A datetime: wall-clock minutes and, when timezone-aware, its offset
\* from UTC in minutes.
Datetime(wall, offset) == [wall |-> wall, offset |-> offset]

\* to_naive_utc: None stays None, an aware value is moved to UTC and loses
\* its offset, a naive value is kept (it is taken to be UTC).
to_naive_utc(dt) ==
    IF dt = None THEN None
    ELSE IF dt[1].offset # None
    THEN Some(Datetime(dt[1].wall - dt[1].offset[1], None))
    ELSE dt

\* ImportMovieAddRequest.rated_at: absent, or an aware datetime.
RatedAts == {None, Some(Datetime(90, Some(60)))}

\* TMDBMatchResult / ImportMovieMatchRequest: the catalog id identifies the
\* candidate; the other fields are payload copied along with it.
TMDBMatchResult(id) == [tmdb_id |-> id]

\* MatchedMovieItem as match_movies_with_tmdb emits it: without a result
\* (tmdb_match None, confidence 0.0, no alternatives) or with a best match.
\* confidence is in hundredths.
UnmatchedItem ==
    [parsed |-> [title |-> "A", watch_date |-> None], tmdb_match |-> None, confidence |-> 0,
     alternatives |-> <<>>, status |-> "pending"]

MatchedItem ==
    [parsed |-> [title |-> "B", watch_date |-> Some(Datetime(0, None))],
     tmdb_match |-> Some(TMDBMatchResult(11)),
     confidence |-> 80, alternatives |-> <<TMDBMatchResult(12)>>,
     status |-> "pending"]

\* The matched_movies lists an upload hands to create_session.
UploadInputs ==
    { <<MatchedItem>>, <<UnmatchedItem, MatchedItem>> }

\* Item indexes a client can send (0-based, out-of-range ones included).
Indexes == -1..2

\* Keyword arguments of update_session calls.  A function from field names
\* to values; "created_at" and "user_id" are not in the allowed set.
UpdateInputs ==
    { [current_index |-> 1], [added_count |-> 1], [skipped_count |-> 1],
      [movies |-> <<>>], [created_at |-> 0], [user_id |-> "u2"] }

VARIABLES
    now,            \* datetime.utcnow(), in minutes
    sessions,       \* ImportSessionStore._sessions: session id -> ImportSession
    user_sessions,  \* ImportSessionStore._user_sessions: user id -> session id
    issued,         \* uuid4 history: issued[i] is the user session id i was created for
    req,            \* per request slot: the add_import_movie call in flight
    db_movies,      \* committed rows of table movies
    db_rankings,    \* committed rows of table rankings
    up              \* the upload_amazon_prime_csv call in flight

vars == <<now, sessions, user_sessions, issued, req, db_movies, db_rankings, up>>

\* ------------------------------------------------------------ dict helpers
Pop(d, k) == [x \in DOMAIN d \ {k} |-> d[x]]
Put(d, k, v) == [x \in DOMAIN d \cup {k} |-> IF x = k THEN v ELSE d[x]]

\* ------------------------------------------------- ImportSessionStore
\* The store is the pair of dicts; every method is synchronous, so it runs
\* as one step.  A method is an operator from the store (and the clock) to
\* the store after the call and, where it returns something, its result.
Store(s, us) == [sessions |-> s, user_sessions |-> us]

ImportSession(user_id, movies, created_at, stats) ==
    [user_id |-> user_id, movies |-> movies, created_at |-> created_at,
     current_index |-> 0, added_count |-> 0, skipped_count |-> 0,
     total_entries |-> stats.total_entries, movies_found |-> stats.movies_found,
     tv_shows_filtered |-> stats.tv_shows_filtered,
     already_ranked |-> stats.already_ranked]

\* now - session.created_at > timedelta(minutes=SESSION_TTL_MINUTES)
IsExpiredAtOrPast(session, t) == t - session.created_at >= SESSION_TTL_MINUTES
IsExpired(session, t) == t - session.created_at > SESSION_TTL_MINUTES

\* movies[: MAX_MOVIES_PER_SESSION]
\* Variant: the list is stored whole.
TruncateNothing(movies) == movies

Truncate(movies) ==
    SubSeq(movies, 1, IF Len(movies) < MAX_MOVIES_PER_SESSION
                      THEN Len(movies) ELSE MAX_MOVIES_PER_SESSION)

delete_session_keep_index(st, session_id) ==
    IF session_id \in DOMAIN st.sessions
    THEN Store(Pop(st.sessions, session_id), st.user_sessions)
    ELSE st
delete_session(st, session_id) ==
    IF session_id \in DOMAIN st.sessions
    THEN Store(Pop(st.sessions, session_id),
               Pop(st.user_sessions, st.sessions[session_id].user_id))
    ELSE st

create_session_keep_old(st, session_id, user_id, movies, stats, t) ==
    Store(Put(st.sessions, session_id,
              ImportSession(user_id, Truncate(movies), t, stats)),
          Put(st.user_sessions, user_id, session_id))
create_session(st, session_id, user_id, movies, stats, t) ==
    LET removed == IF user_id \in DOMAIN st.user_sessions
                   THEN Pop(st.sessions, st.user_sessions[user_id])
                   ELSE st.sessions
    IN  Store(Put(removed, session_id,
                  ImportSession(user_id, Truncate(movies), t, stats)),
              Put(st.user_sessions, user_id, session_id))

\* get_session: found is FALSE where the method returns None; st is the
\* store after the call (an expired session is deleted on access).
get_session_expiry_first(st, session_id, user_id, t) ==
    IF session_id \notin DOMAIN st.sessions
    THEN [found |-> FALSE, st |-> st]
    ELSE IF IsExpired(st.sessions[session_id], t)
    THEN [found |-> FALSE, st |-> delete_session(st, session_id)]
    ELSE IF st.sessions[session_id].user_id # user_id
    THEN [found |-> FALSE, st |-> st]
    ELSE [found |-> TRUE, st |-> st]
get_session(st, session_id, user_id, t) ==
    IF session_id \notin DOMAIN st.sessions
    THEN [found |-> FALSE, st |-> st]
    ELSE IF st.sessions[session_id].user_id # user_id
    THEN [found |-> FALSE, st |-> st]
    ELSE IF IsExpired(st.sessions[session_id], t)
    THEN [found |-> FALSE, st |-> delete_session(st, session_id)]
    ELSE [found |-> TRUE, st |-> st]

allowed_fields == {"current_index", "added_count", "skipped_count", "movies"}

\* Variant: setattr for every key of updates, allowed or not.
ApplyUpdatesAnyField(session, updates) ==
    [f \in DOMAIN session |->
        IF f \in DOMAIN updates THEN updates[f] ELSE session[f]]

\* setattr(session, key, value) for every allowed key of updates
ApplyUpdates(session, updates) ==
    [f \in DOMAIN session |->
        IF f \in DOMAIN updates /\ f \in allowed_fields
        THEN updates[f] ELSE session[f]]

update_session(st, session_id, user_id, updates, t) ==
    LET got == get_session(st, session_id, user_id, t)
    IN  IF ~got.found
        THEN got
        ELSE [found |-> TRUE,
              st |-> Store([got.st.sessions EXCEPT ![session_id] =
                                ApplyUpdates(@, updates)],
                           got.st.user_sessions)]

\* cleanup_expired: delete_session for every expired id; count is the
\* returned number of removed sessions.
ExpiredIds(st, t) == {sid \in DOMAIN st.sessions : IsExpired(st.sessions[sid], t)}

RECURSIVE DeleteAll(_, _)
DeleteAll(st, ids) ==
    IF ids = {} THEN st
    ELSE LET sid == CHOOSE x \in ids : TRUE
         IN  DeleteAll(delete_session(st, sid), ids \ {sid})

\* Variant: the scan stops after the first expired session.
cleanup_expired_first_only(st, t) ==
    LET expired == ExpiredIds(st, t)
    IN  IF expired = {} THEN [count |-> 0, st |-> st]
        ELSE [count |-> 1,
              st |-> delete_session(st, CHOOSE sid \in expired : TRUE)]

cleanup_expired(st, t) ==
    LET expired == ExpiredIds(st, t)
    IN  [count |-> Cardinality(expired), st |-> DeleteAll(st, expired)]

get_session_count(st) == Cardinality(DOMAIN st.sessions)

TheStore == Store(sessions, user_sessions)

\* ------------------------------------------------------------- responses
\* A handler is an operator from the store, its arguments and the clock to
\* its HTTP response and the store it leaves behind.
Response(code, detail) == [code |-> code, detail |-> detail]

NotFound == Response(404, "Import session not found or expired")
OutOfRange == Response(404, "Movie index out of range")
AlreadyProcessed == Response(400, "Movie has already been processed")
NoTmdbMatch == Response(400, "Cannot add movie without TMDB match")

Result(resp, st) == [resp |-> resp, st |-> st]

\* index < 0 or index >= len(session.movies)
IndexOutOfRange(session, index) == index < 0 \/ index >= Len(session.movies)

\* session.movies[index], index 0-based
ItemAt(session, index) == session.movies[index + 1]

\* Variant: the cursor is put behind the successor of the item.
MarkProcessedSkipAhead(session, index, status, counter) ==
    [session EXCEPT !.movies[index + 1].status = status,
                    ![counter] = @ + 1,
                    !.current_index = index + 2]

\* Variant: the cursor moves one item forward.
MarkProcessedAdvance(session, index, status, counter) ==
    [session EXCEPT !.movies[index + 1].status = status,
                    ![counter] = @ + 1,
                    !.current_index = @ + 1]

\* lines 603-606 / 660-663: the session write of a processed item.
MarkProcessed(session, index, status, counter) ==
    [session EXCEPT !.movies[index + 1].status = status,
                    ![counter] = @ + 1,
                    !.current_index = index + 1]

\* add_import_movie, lines 603-606, on the session object the handler got
\* at line 479.  The object is the one stored under sid as long as sid is
\* in the store (ids are never reused); once removed it is unreachable for
\* every later request, so the write has no effect on the store.
add_import_movie_finish(st, sid, index) ==
    IF sid \in DOMAIN st.sessions
    THEN Store([st.sessions EXCEPT ![sid] =
                   MarkProcessed(@, index, "added", "added_count")],
               st.user_sessions)
    ELSE st

\* get_import_session
get_import_session(st, u, sid, t) ==
    LET got == get_session(st, sid, u, t)
    IN  IF ~got.found THEN Result(NotFound, got.st)
        ELSE Result(Response(200, ""), got.st)

\* Variant: no check of the item's status before the datastore calls.
add_import_movie_checks_any_status(st, u, sid, index, t) ==
    LET got == get_session(st, sid, u, t)
    IN  IF ~got.found THEN Result(NotFound, got.st)
        ELSE IF IndexOutOfRange(got.st.sessions[sid], index)
        THEN Result(OutOfRange, got.st)
        ELSE IF ItemAt(got.st.sessions[sid], index).tmdb_match = None
        THEN Result(NoTmdbMatch, got.st)
        ELSE [resp |-> Response(0, ""), st |-> got.st,
              tmdb_id |-> ItemAt(got.st.sessions[sid], index).tmdb_match[1].tmdb_id]

\* add_import_movie, lines 479-508: session lookup, index and state checks
\* on the snapshot movie_data, up to the first datastore call.  Code 0: no
\* response yet, the handler goes on to the datastore with the catalog id
\* of the snapshot.
add_import_movie_checks(st, u, sid, index, t) ==
    LET got == get_session(st, sid, u, t)
    IN  IF ~got.found THEN Result(NotFound, got.st)
        ELSE IF IndexOutOfRange(got.st.sessions[sid], index)
        THEN Result(OutOfRange, got.st)
        ELSE IF ItemAt(got.st.sessions[sid], index).status # "pending"
        THEN Result(AlreadyProcessed, got.st)
        ELSE IF ItemAt(got.st.sessions[sid], index).tmdb_match = None
        THEN Result(NoTmdbMatch, got.st)
        ELSE [resp |-> Response(0, ""), st |-> got.st,
              tmdb_id |-> ItemAt(got.st.sessions[sid], index).tmdb_match[1].tmdb_id]

\* Variant: an index outside the list is answered as an invalid state.
skip_import_movie_index_as_state(st, u, sid, index, t) ==
    LET got == get_session(st, sid, u, t)
    IN  IF ~got.found THEN Result(NotFound, got.st)
        ELSE IF IndexOutOfRange(got.st.sessions[sid], index)
        THEN Result(AlreadyProcessed, got.st)
        ELSE IF ItemAt(got.st.sessions[sid], index).status # "pending"
        THEN Result(AlreadyProcessed, got.st)
        ELSE Result(Response(204, ""),
                    Store([got.st.sessions EXCEPT ![sid] =
                              MarkProcessed(@, index, "skipped", "skipped_count")],
                          got.st.user_sessions))

\* skip_import_movie
skip_import_movie(st, u, sid, index, t) ==
    LET got == get_session(st, sid, u, t)
    IN  IF ~got.found THEN Result(NotFound, got.st)
        ELSE IF IndexOutOfRange(got.st.sessions[sid], index)
        THEN Result(OutOfRange, got.st)
        ELSE IF ItemAt(got.st.sessions[sid], index).status # "pending"
        THEN Result(AlreadyProcessed, got.st)
        ELSE Result(Response(204, ""),
                    Store([got.st.sessions EXCEPT ![sid] =
                              MarkProcessed(@, index, "skipped", "skipped_count")],
                          got.st.user_sessions))

\* Variant: the posted candidate is stored only where no match was there.
update_import_movie_match_keep_match(st, u, sid, index, tmdb_id, t) ==
    LET got == get_session(st, sid, u, t)
    IN  IF ~got.found THEN Result(NotFound, got.st)
        ELSE IF IndexOutOfRange(got.st.sessions[sid], index)
        THEN Result(OutOfRange, got.st)
        ELSE Result(Response(200, ""),
                    Store([got.st.sessions EXCEPT ![sid].movies[index + 1] =
                              [@ EXCEPT !.tmdb_match =
                                            IF @ = None
                                            THEN Some(TMDBMatchResult(tmdb_id)) ELSE @,
                                        !.confidence = 100,
                                        !.alternatives = <<>>]],
                          got.st.user_sessions))

\* Variant: the alternatives are kept.
update_import_movie_match_keep_alternatives(st, u, sid, index, tmdb_id, t) ==
    LET got == get_session(st, sid, u, t)
    IN  IF ~got.found THEN Result(NotFound, got.st)
        ELSE IF IndexOutOfRange(got.st.sessions[sid], index)
        THEN Result(OutOfRange, got.st)
        ELSE Result(Response(200, ""),
                    Store([got.st.sessions EXCEPT ![sid].movies[index + 1] =
                              [@ EXCEPT !.tmdb_match = Some(TMDBMatchResult(tmdb_id)),
                                        !.confidence = 100]],
                          got.st.user_sessions))

\* update_import_movie_match
update_import_movie_match(st, u, sid, index, tmdb_id, t) ==
    LET got == get_session(st, sid, u, t)
    IN  IF ~got.found THEN Result(NotFound, got.st)
        ELSE IF IndexOutOfRange(got.st.sessions[sid], index)
        THEN Result(OutOfRange, got.st)
        ELSE Result(Response(200, ""),
                    Store([got.st.sessions EXCEPT ![sid].movies[index + 1] =
                              [@ EXCEPT !.tmdb_match = Some(TMDBMatchResult(tmdb_id)),
                                        !.confidence = 100,
                                        !.alternatives = <<>>]],
                          got.st.user_sessions))

\* Variant: the answer is given, the session stays.
cancel_import_session_keep(st, u, sid, t) ==
    LET got == get_session(st, sid, u, t)
    IN  IF ~got.found THEN Result(NotFound, got.st)
        ELSE Result(Response(204, ""), got.st)

\* cancel_import_session
cancel_import_session(st, u, sid, t) ==
    LET got == get_session(st, sid, u, t)
    IN  IF ~got.found THEN Result(NotFound, got.st)
        ELSE Result(Response(204, ""), delete_session(got.st, sid))

\* ------------------------------------------------------------ datastore
\* One transaction per request (get_db): writes are flushed into the
\* transaction and become visible to other requests at commit, which runs
\* after the handler returned; an exception in the handler rolls back.
\* Rows: movies [id, tmdb_id] (tmdb_id is indexed, not unique);
\*       rankings [user_id, movie_id, rating, rated_at], unique on (user_id, movie_id).
IdleReq ==
    [pc |-> "idle", uid |-> "u1", sid |-> 0, index |-> 0, rating |-> 0,
     tmdb_id |-> 0, movie_id |-> 0, existing |-> FALSE,
     rated_at |-> None, watch_date |-> None, stamp |-> 0,
     new_movie |-> None, rank_write |-> None]

\* upload_amazon_prime_csv: no call in flight.
IdleUpload ==
    [pc |-> "idle", uid |-> "u1", parse_result |-> None, existing_tmdb_ids |-> {},
     i |-> 0, matched |-> <<>>, already_ranked |-> 0, searches |-> <<>>]

Idle(r) == req[r].pc = "idle"
AllIdle == \A r \in Reqs : Idle(r)

\* A new request takes the first free slot.
FirstFree(r) == Idle(r) /\ (r = "r1" \/ ~Idle("r1"))

\* Rows a request's SELECT sees: committed rows and its own flushed rows.
VisibleMovies(r) ==
    db_movies \cup {req[r].new_movie[i] : i \in 1..Len(req[r].new_movie)}

UsedMovieIds ==
    {m.id : m \in db_movies} \cup
    {req[r].new_movie[1].id : r \in {x \in Reqs : req[x].new_movie # None}}

\* gen_random_uuid(): an id no row has (the first unused of the ids set
\* aside for the catalog id, so that equal tables get equal ids).
FreshMovieId(tmdb_id) ==
    CHOOSE i \in (10 * tmdb_id + 1)..(10 * tmdb_id + Cardinality(Reqs) + 1) :
        /\ i \notin UsedMovieIds
        /\ \A j \in (10 * tmdb_id + 1)..(i - 1) : j \in UsedMovieIds

\* Another transaction holds an uncommitted write of the ranking row
\* (user, movie): an INSERT or UPDATE of that row waits for it to end.
RankingLocked(r, user, movie) ==
    \E o \in Reqs \ {r} :
        /\ req[o].rank_write # None
        /\ req[o].rank_write[1].user_id = user
        /\ req[o].rank_write[1].movie_id = movie

Committed(user, movie) ==
    \E k \in db_rankings : k.user_id = user /\ k.movie_id = movie

\* session.commit(): the transaction's rows reach the tables.
CommitMovies(r) == VisibleMovies(r)

\* Variant: the written ranking is added next to the row of its pair.
CommitRankingsInsertOnly(r) ==
    IF req[r].rank_write = None THEN db_rankings
    ELSE db_rankings \cup {req[r].rank_write[1]}

CommitRankings(r) ==
    IF req[r].rank_write = None THEN db_rankings
    ELSE LET w == req[r].rank_write[1]
         IN  {k \in db_rankings : ~(k.user_id = w.user_id /\ k.movie_id = w.movie_id)}
             \cup {w}

Init ==
    /\ now = 0
    /\ sessions = <<>>
    /\ user_sessions = <<>>
    /\ issued = <<>>
    /\ req = [r \in Reqs |-> IdleReq]
    /\ db_movies = {}
    /\ db_rankings = {}
    /\ up = IdleUpload

SetStore(st) ==
    /\ sessions' = st.sessions
    /\ user_sessions' = st.user_sessions

\* The clock advances.
Tick ==
    /\ now + TickStep <= MaxTime
    /\ now' = now + TickStep
    /\ UNCHANGED <<sessions, user_sessions, issued, up, req, db_movies, db_rankings>>

\* Summary counters an upload carries from parsing and matching.
Stats(movies) ==
    [total_entries |-> Len(movies) + 1, movies_found |-> Len(movies),
     tv_shows_filtered |-> 1, already_ranked |-> 0]

\* upload_amazon_prime_csv from the point where matching has finished
\* (lines 372-390): create_session with the matched items.
Upload(u, movies) ==
    /\ Len(issued) < MaxSessions
    /\ issued' = Append(issued, u)
    /\ SetStore(create_session(TheStore, Len(issued) + 1, u, movies, Stats(movies), now))
    /\ UNCHANGED <<now, req, db_movies, db_rankings, up>>

GetImportSession(u, sid) ==
    /\ SetStore(get_import_session(TheStore, u, sid, now).st)
    /\ UNCHANGED <<now, issued, up, req, db_movies, db_rankings>>

\* add_import_movie up to its first await (line 509).
AddStart(r, u, sid, index, rating, rated_at) ==
    LET res == add_import_movie_checks(TheStore, u, sid, index, now)
    IN  /\ FirstFree(r)
        /\ SetStore(res.st)
        /\ req' = IF res.resp.code # 0 THEN req
                  ELSE [req EXCEPT ![r] =
                     [IdleReq EXCEPT !.pc = "select_movie", !.uid = u, !.sid = sid,
                        !.index = index, !.rating = rating,
                        !.rated_at = rated_at,
                        !.watch_date =
                            ItemAt(res.st.sessions[sid], index).parsed.watch_date,
                        !.tmdb_id = res.tmdb_id]]
        /\ UNCHANGED <<now, issued, up, db_movies, db_rankings>>

\* An exception leaves the handler: get_db rolls the transaction back and
\* the request ends with 500.
Abort(r) ==
    /\ req' = [req EXCEPT ![r] = IdleReq]
    /\ UNCHANGED <<now, sessions, user_sessions, issued, up, db_movies, db_rankings>>

\* lines 509-512: select(Movie).where(Movie.tmdb_id == tmdb_id),
\* scalar_one_or_none() (MultipleResultsFound on more than one row).  A
\* found movie goes on to the ranking lookup (the metadata backfill and
\* the details fetch change no modelled field).
AddSelectMovie(r) ==
    LET rows == {m \in VisibleMovies(r) : m.tmdb_id = req[r].tmdb_id}
    IN  /\ req[r].pc = "select_movie"
        /\ IF Cardinality(rows) > 1
           THEN Abort(r)
           ELSE /\ req' = [req EXCEPT ![r] =
                     IF rows = {}
                     THEN [@ EXCEPT !.pc = "insert_movie"]
                     ELSE [@ EXCEPT !.pc = "select_ranking",
                                    !.movie_id = (CHOOSE m \in rows : TRUE).id]]
                /\ UNCHANGED <<now, sessions, user_sessions, issued, up,
                               db_movies, db_rankings>>

\* lines 513-536: details fetch (failure tolerated), db.add(movie), flush.
AddInsertMovie(r) ==
    /\ req[r].pc = "insert_movie"
    /\ req' = [req EXCEPT ![r] =
          [@ EXCEPT !.pc = "select_ranking", !.movie_id = FreshMovieId(req[r].tmdb_id),
             !.new_movie = Some([id |-> FreshMovieId(req[r].tmdb_id), tmdb_id |-> req[r].tmdb_id])]]
    /\ UNCHANGED <<now, sessions, user_sessions, issued, up, db_movies, db_rankings>>

\* lines 567-572: the request's rated_at, else the snapshot's watch date,
\* else the current time; as naive UTC minutes.
EffectiveRatedAt(rated_at, watch_date, t) ==
    IF to_naive_utc(rated_at) # None THEN to_naive_utc(rated_at)[1].wall
    ELSE IF watch_date # None THEN to_naive_utc(watch_date)[1].wall
    ELSE t

\* lines 567-582: rated_at, then select(Ranking) for (current_user.id,
\* movie.id).
AddSelectRanking(r) ==
    /\ req[r].pc = "select_ranking"
    /\ req' = [req EXCEPT ![r] =
          [@ EXCEPT !.pc = "write_ranking",
                    !.stamp = EffectiveRatedAt(req[r].rated_at, req[r].watch_date, now),
                    !.existing = Committed(req[r].uid, req[r].movie_id)]]
    /\ UNCHANGED <<now, sessions, user_sessions, issued, up, db_movies, db_rankings>>

\* lines 584-608: UPDATE of the ranking found, or INSERT of a new one
\* (flush), then the session write and the 201 response.  The statement
\* waits while another transaction holds an uncommitted write of the row;
\* an INSERT of a committed (user, movie) pair violates uq_user_movie;
\* session.movies[index] raises IndexError on a list that became shorter.
AddWriteRanking(r) ==
    LET q == req[r]
    IN  /\ q.pc = "write_ranking"
        /\ ~RankingLocked(r, q.uid, q.movie_id)
        /\ IF ~q.existing /\ Committed(q.uid, q.movie_id)
           THEN Abort(r)
           ELSE IF q.sid \in DOMAIN sessions
                   /\ IndexOutOfRange(sessions[q.sid], q.index)
           THEN Abort(r)
           ELSE /\ req' = [req EXCEPT ![r] =
                     [@ EXCEPT !.pc = "commit",
                        !.rank_write = Some([user_id |-> q.uid, movie_id |-> q.movie_id,
                                             rating |-> q.rating,
                                             rated_at |-> q.stamp])]]
                /\ SetStore(add_import_movie_finish(TheStore, q.sid, q.index))
                /\ UNCHANGED <<now, issued, up, db_movies, db_rankings>>

\* get_db after the handler returned: session.commit().
AddCommit(r) ==
    /\ req[r].pc = "commit"
    /\ db_movies' = CommitMovies(r)
    /\ db_rankings' = CommitRankings(r)
    /\ req' = [req EXCEPT ![r] = IdleReq]
    /\ UNCHANGED <<now, sessions, user_sessions, issued, up>>

\* skip_import_movie, update_import_movie_match, cancel_import_session:
\* no await, one step each.
Skip(u, sid, index) ==
    /\ SetStore(skip_import_movie(TheStore, u, sid, index, now).st)
    /\ UNCHANGED <<now, issued, up, req, db_movies, db_rankings>>

UpdateMatch(u, sid, index, tmdb_id) ==
    /\ SetStore(update_import_movie_match(TheStore, u, sid, index, tmdb_id, now).st)
    /\ UNCHANGED <<now, issued, up, req, db_movies, db_rankings>>

Cancel(u, sid) ==
    /\ SetStore(cancel_import_session(TheStore, u, sid, now).st)
    /\ UNCHANGED <<now, issued, up, req, db_movies, db_rankings>>

\* Direct calls of the store's other methods (no router calls them).
UpdateSession(u, sid, updates) ==
    /\ SetStore(update_session(TheStore, sid, u, updates, now).st)
    /\ UNCHANGED <<now, issued, up, req, db_movies, db_rankings>>

DeleteSession(sid) ==
    /\ SetStore(delete_session(TheStore, sid))
    /\ UNCHANGED <<now, issued, up, req, db_movies, db_rankings>>

CleanupExpired ==
    /\ SetStore(cleanup_expired(TheStore, now).st)
    /\ UNCHANGED <<now, issued, up, req, db_movies, db_rankings>>

\* ------------------------------------------------------------ CSV parser
\* str.strip() and str.lower() on the strings that occur in the inputs.
strip(str) ==
    CASE str = " Movie " -> "Movie"
      [] str = " Heat " -> "Heat"
      [] str = "  " -> ""
      [] OTHER -> str

lower(str) ==
    CASE str = "Movie" -> "movie"
      [] str = "MOVIE" -> "movie"
      [] str = "TV Series" -> "tv series"
      [] str = "Heat" -> "heat"
      [] str = "Hat" -> "hat"
      [] str = "HEAT" -> "heat"
      [] str = "Ronin" -> "ronin"
      [] OTHER -> str

\* parse_date: (datetime, year), (None, year) when only the first four
\* characters are a year in 1900..2100, (None, None) otherwise.  Dates
\* are minutes on the model's clock; the year is carried as written.
parse_date(date_str) ==
    IF date_str = None THEN [watch_date |-> None, year |-> None]
    ELSE CASE strip(date_str[1]) = "1995-12-15" ->
                  [watch_date |-> Some(Datetime(0, None)), year |-> Some(1995)]
           [] strip(date_str[1]) = "1996" ->
                  [watch_date |-> None, year |-> Some(1996)]
           [] OTHER -> [watch_date |-> None, year |-> None]

\* A file: None when it has no content, else the header's fieldnames and
\* the non-blank rows, each the sequence of its cells.
CsvFile(fieldnames, rows) == Some([fieldnames |-> fieldnames, rows |-> rows])

\* Position of a column in the header (0 when absent).
ColumnOf(fieldnames, key) ==
    IF \E k \in 1..Len(fieldnames) : fieldnames[k] = key
    THEN CHOOSE k \in 1..Len(fieldnames) : fieldnames[k] = key
    ELSE 0

\* csv.DictReader row.get(key, default): the default for a column the
\* header lacks, None (restval) for a cell a short row lacks.
RowGet(fieldnames, cells, key, default) ==
    IF ColumnOf(fieldnames, key) = 0 THEN default
    ELSE IF ColumnOf(fieldnames, key) > Len(cells) THEN None
    ELSE Some(cells[ColumnOf(fieldnames, key)])

ParseResult(movies, total_entries, tv_shows_filtered, parse_errors) ==
    [movies |-> movies, total_entries |-> total_entries,
     movies_found |-> Len(movies), tv_shows_filtered |-> tv_shows_filtered,
     parse_errors |-> parse_errors]

\* Variant: the type filter comes before the title check.
ParseRowTypeFirst(fieldnames, cells) ==
    LET content_type == RowGet(fieldnames, cells, "Type", Some(""))
        title == RowGet(fieldnames, cells, "Title", Some(""))
        image == RowGet(fieldnames, cells, "Image URL", Some(""))
        date == parse_date(RowGet(fieldnames, cells, "Date Watched", None))
    IN  IF content_type = None \/ title = None THEN [kind |-> "error"]
        ELSE IF lower(strip(content_type[1])) # "movie" THEN [kind |-> "tv"]
        ELSE IF strip(title[1]) = "" THEN [kind |-> "error"]
        ELSE IF image = None THEN [kind |-> "error"]
        ELSE [kind |-> "movie",
              movie |-> [title |-> strip(title[1]), watch_date |-> date.watch_date,
                         year |-> date.year]]

\* Lines 172-206: one row.  "error" stands for the row counted in
\* parse_errors (empty title, or .strip() raised on a missing cell).
ParseRow(fieldnames, cells) ==
    LET content_type == RowGet(fieldnames, cells, "Type", Some(""))
        title == RowGet(fieldnames, cells, "Title", Some(""))
        image == RowGet(fieldnames, cells, "Image URL", Some(""))
        date == parse_date(RowGet(fieldnames, cells, "Date Watched", None))
    IN  IF content_type = None \/ title = None THEN [kind |-> "error"]
        ELSE IF strip(title[1]) = "" THEN [kind |-> "error"]
        ELSE IF lower(strip(content_type[1])) # "movie" THEN [kind |-> "tv"]
        ELSE IF image = None THEN [kind |-> "error"]
        ELSE [kind |-> "movie",
              movie |-> [title |-> strip(title[1]), watch_date |-> date.watch_date,
                         year |-> date.year]]

\* Lines 172-224: the loop over the rows, from the first k rows on.
RECURSIVE ParseRows(_, _, _)
ParseRows(fieldnames, rows, k) ==
    IF k = 0 THEN ParseResult(<<>>, 0, 0, 0)
    ELSE LET before == ParseRows(fieldnames, rows, k - 1)
             row == ParseRow(fieldnames, rows[k])
         IN  ParseResult(
                 IF row.kind = "movie" THEN Append(before.movies, row.movie)
                                       ELSE before.movies,
                 before.total_entries + 1,
                 before.tv_shows_filtered + (IF row.kind = "tv" THEN 1 ELSE 0),
                 before.parse_errors + (IF row.kind = "error" THEN 1 ELSE 0))

required_columns == {"Type", "Title"}

parse_amazon_prime_csv(file) ==
    IF file = None THEN ParseResult(<<>>, 0, 0, 0)
    ELSE IF \E c \in required_columns : ColumnOf(file[1].fieldnames, c) = 0
    THEN ParseResult(<<>>, 0, 0, 1)
    ELSE ParseRows(file[1].fieldnames, file[1].rows, Len(file[1].rows))

\* --------------------------------------------------------------- matcher
\* The characters of the lowercased titles that occur in the inputs.
Chars(str) ==
    CASE str = "heat" -> <<"h", "e", "a", "t">>
      [] str = "hat" -> <<"h", "a", "t">>
      [] str = "ronin" -> <<"r", "o", "n", "i", "n">>
      [] OTHER -> <<>>

\* difflib.SequenceMatcher.find_longest_match: the blocks a[i..i+k-1] =
\* b[j..j+k-1] of greatest length k, of these the one earliest in a, then
\* earliest in b.
MatchingBlocks(a, b) ==
    {blk \in (1..Len(a)) \X (1..Len(b)) \X (1..Len(a)) :
        /\ blk[1] + blk[3] - 1 <= Len(a)
        /\ blk[2] + blk[3] - 1 <= Len(b)
        /\ \A d \in 0..(blk[3] - 1) : a[blk[1] + d] = b[blk[2] + d]}

LongestMatch(a, b) ==
    CHOOSE blk \in MatchingBlocks(a, b) :
        \A o \in MatchingBlocks(a, b) :
            \/ o[3] < blk[3]
            \/ o[3] = blk[3] /\ blk[1] < o[1]
            \/ o[3] = blk[3] /\ blk[1] = o[1] /\ blk[2] <= o[2]

\* get_matching_blocks: the number of matched characters, the longest
\* block and, recursively, the matches to its left and to its right.
RECURSIVE Matches(_, _)
Matches(a, b) ==
    IF MatchingBlocks(a, b) = {} THEN 0
    ELSE LET blk == LongestMatch(a, b)
         IN  blk[3]
             + Matches(SubSeq(a, 1, blk[1] - 1), SubSeq(b, 1, blk[2] - 1))
             + Matches(SubSeq(a, blk[1] + blk[3], Len(a)),
                       SubSeq(b, blk[2] + blk[3], Len(b)))

\* Variant: years one apart count like equal years.
year_bonus_flat(parsed_year, tmdb_year) ==
    IF parsed_year = None \/ tmdb_year = None THEN 0
    ELSE IF parsed_year[1] - tmdb_year[1] \in {-1, 0, 1} THEN 40
    ELSE 0

\* calculate_confidence, in hundredths (rounded down): 0.6 times the ratio
\* 2*M/T of the lowercased titles, plus 0.4 for equal years or 0.2 for
\* years one apart when both years are given, at most 1.0.
Min(x, y) == IF x <= y THEN x ELSE y

title_ratio_weighted(parsed_title, tmdb_title) ==
    LET a == Chars(lower(parsed_title))
        b == Chars(lower(tmdb_title))
    IN  IF Len(a) + Len(b) = 0 THEN 60
        ELSE (2 * Matches(a, b) * 60) \div (Len(a) + Len(b))

year_bonus(parsed_year, tmdb_year) ==
    IF parsed_year = None \/ tmdb_year = None THEN 0
    ELSE IF parsed_year[1] = tmdb_year[1] THEN 40
    ELSE IF parsed_year[1] - tmdb_year[1] \in {-1, 1} THEN 20
    ELSE 0

calculate_confidence(parsed_title, parsed_year, tmdb_title, tmdb_year) ==
    Min(title_ratio_weighted(parsed_title, tmdb_title)
            + year_bonus(parsed_year, tmdb_year), 100)

\* TMDBMovieResult as search_movies returns it.
TMDBMovieResult(tmdb_id, title, year) ==
    [tmdb_id |-> tmdb_id, title |-> title, year |-> year]

\* What one search_movies call can do: return a list of results, or raise
\* TMDBRateLimitError (429), TMDBAPIError (401 or another status),
\* TMDBServiceError (timeout, connection) or another exception.
SearchFailures == {"rate_limit", "api_error", "timeout", "exception"}

SearchResults ==
    { <<>>,
      <<TMDBMovieResult(11, "Heat", Some(1995))>>,
      <<TMDBMovieResult(12, "HEAT", Some(1996)), TMDBMovieResult(11, "Hat", None),
        TMDBMovieResult(13, "Ronin", Some(1998)), TMDBMovieResult(14, "Heat", Some(1995))>> }

SearchOutcomes ==
    {[raised |-> f] : f \in SearchFailures}
        \cup {[raised |-> "", results |-> res] : res \in SearchResults}

ParsedMovieItem(movie) == [title |-> movie.title, watch_date |-> movie.watch_date]

\* The item of an entry without a catalog match.
NoMatchItem(movie) ==
    [parsed |-> ParsedMovieItem(movie), tmdb_match |-> None, confidence |-> 0,
     alternatives |-> <<>>, status |-> "pending"]

\* The item of an entry whose search returned results, with the given
\* alternatives.
BestMatchItem(movie, results, alternatives) ==
    [parsed |-> ParsedMovieItem(movie),
     tmdb_match |-> Some(TMDBMatchResult(results[1].tmdb_id)),
     confidence |-> calculate_confidence(movie.title, movie.year,
                                         results[1].title, results[1].year),
     alternatives |-> [k \in 1..Len(alternatives) |->
                          TMDBMatchResult(alternatives[k].tmdb_id)],
     status |-> "pending"]

\* ---------------------------------------------------------------- upload
\* UploadFile.filename and its check filename.lower().endswith(".csv").
Filenames == {"history.CSV", "history.txt"}

IsCsvName(filename) == filename = "history.CSV"

\* The header of an Amazon Prime export, reduced to the columns the
\* parser reads.
AmazonHeader == <<"Date Watched", "Type", "Title", "Image URL">>

MovieRow(date, title) == <<date, "Movie", title, "">>

\* Files a client uploads for matching.
UploadFiles ==
    { CsvFile(AmazonHeader, <<MovieRow("1995-12-15", "Heat")>>),
      CsvFile(AmazonHeader, <<MovieRow("1996", "Heat"),
                              <<"1995-12-15", "TV Series", "Heat", "">>,
                              MovieRow("", "Ronin")>>),
      CsvFile(AmazonHeader, <<<<"", "TV Series", "Heat", "">>>>),
      None }

\* upload_amazon_prime_csv, lines 344-363: the checks before matching.
\* Code 0: no response yet, matching starts with parse_result.
upload_checks(filename, file) ==
    LET parse_result == parse_amazon_prime_csv(file)
    IN  IF ~IsCsvName(filename)
        THEN [resp |-> Response(400, "File must be a CSV file")]
        ELSE IF parse_result.total_entries = 0
        THEN [resp |-> Response(400, "CSV file is empty or could not be parsed")]
        ELSE IF parse_result.movies_found = 0
        THEN [resp |-> Response(400, "No movies found in CSV file (only TV shows?)")]
        ELSE [resp |-> Response(0, ""), parse_result |-> parse_result]

UploadStart(u, filename, file) ==
    LET res == upload_checks(filename, file)
    IN  /\ up.pc = "idle"
        /\ Len(issued) < MaxSessions
        /\ up' = IF res.resp.code # 0 THEN up
                 ELSE [IdleUpload EXCEPT !.pc = "select_existing", !.uid = u,
                                         !.parse_result = res.parse_result]
        /\ UNCHANGED <<now, sessions, user_sessions, issued, req, db_movies, db_rankings>>

\* match_movies_with_tmdb, lines 133-139: the catalog ids of the movies
\* the user has ranked.
UploadSelectExisting ==
    /\ up.pc = "select_existing"
    /\ up' = [up EXCEPT !.pc = "search",
                        !.existing_tmdb_ids =
                            {m.tmdb_id : m \in
                                {x \in db_movies :
                                    \E k \in db_rankings :
                                        k.movie_id = x.id /\ k.user_id = up.uid}}]
    /\ UNCHANGED <<now, sessions, user_sessions, issued, req, db_movies, db_rankings>>

\* The entry being matched.
CurrentMovie == up.parse_result.movies[up.i + 1]

\* The loop goes on to the next entry, or matching has finished.
NextEntry(u) ==
    [u EXCEPT !.i = @ + 1,
              !.pc = IF up.i + 1 = Len(up.parse_result.movies)
                     THEN "create" ELSE "search"]

Searched(u, year, outcome) ==
    [u EXCEPT !.searches = Append(@, [i |-> up.i, year |-> year, outcome |-> outcome])]

Emit(u, item) == [u EXCEPT !.matched = Append(@, item)]

\* Variant: a best match the user has ranked is emitted like any other.
UploadSearchNoExclusion(outcome) ==
    LET u == Searched(up, CurrentMovie.year, outcome)
    IN  /\ up.pc = "search"
        /\ up' = IF outcome.raised = "rate_limit"
                 THEN [u EXCEPT !.pc = "retry"]
                 ELSE IF outcome.raised # ""
                 THEN NextEntry(Emit(u, NoMatchItem(CurrentMovie)))
                 ELSE IF outcome.results = <<>>
                 THEN NextEntry(Emit(u, NoMatchItem(CurrentMovie)))
                 ELSE NextEntry(Emit(u,
                          BestMatchItem(CurrentMovie, outcome.results,
                              SubSeq(outcome.results, 2,
                                     Min(3, Len(outcome.results))))))
        /\ UNCHANGED <<now, sessions, user_sessions, issued, req, db_movies, db_rankings>>

\* Lines 143-219 and 291-305: the first search of an entry, with the year
\* hint, and what the loop does with its outcome.
UploadSearch(outcome) ==
    LET u == Searched(up, CurrentMovie.year, outcome)
    IN  /\ up.pc = "search"
        /\ up' = IF outcome.raised = "rate_limit"
                 THEN [u EXCEPT !.pc = "retry"]
                 ELSE IF outcome.raised # ""
                 THEN NextEntry(Emit(u, NoMatchItem(CurrentMovie)))
                 ELSE IF outcome.results = <<>>
                 THEN NextEntry(Emit(u, NoMatchItem(CurrentMovie)))
                 ELSE IF outcome.results[1].tmdb_id \in up.existing_tmdb_ids
                 THEN NextEntry([u EXCEPT !.already_ranked = @ + 1])
                 ELSE NextEntry(Emit(u,
                          BestMatchItem(CurrentMovie, outcome.results,
                              SubSeq(outcome.results, 2,
                                     Min(3, Len(outcome.results))))))
        /\ UNCHANGED <<now, sessions, user_sessions, issued, req, db_movies, db_rankings>>

\* Variant: a rate-limited retry is retried.
UploadRetryAgain(outcome) ==
    LET u == Searched(up, None, outcome)
    IN  /\ up.pc = "retry"
        /\ up' = IF outcome.raised = "rate_limit"
                 THEN u
                 ELSE IF outcome.raised # ""
                 THEN [u EXCEPT !.pc = "failed"]
                 ELSE IF outcome.results = <<>>
                 THEN NextEntry(Emit(u, NoMatchItem(CurrentMovie)))
                 ELSE IF outcome.results[1].tmdb_id \in up.existing_tmdb_ids
                 THEN NextEntry([u EXCEPT !.already_ranked = @ + 1])
                 ELSE NextEntry(Emit(u,
                          BestMatchItem(CurrentMovie, outcome.results, <<>>)))
        /\ UNCHANGED <<now, sessions, user_sessions, issued, req, db_movies, db_rankings>>

\* Lines 221-289: the retry after TMDBRateLimitError, without the year
\* hint.  Its try catches TMDBRateLimitError only; any other exception
\* leaves match_movies_with_tmdb (an exception raised in an except clause
\* is not handled by the later clauses of the same try).
UploadRetry(outcome) ==
    LET u == Searched(up, None, outcome)
    IN  /\ up.pc = "retry"
        /\ up' = IF outcome.raised = "rate_limit"
                 THEN NextEntry(Emit(u, NoMatchItem(CurrentMovie)))
                 ELSE IF outcome.raised # ""
                 THEN [u EXCEPT !.pc = "failed"]
                 ELSE IF outcome.results = <<>>
                 THEN NextEntry(Emit(u, NoMatchItem(CurrentMovie)))
                 ELSE IF outcome.results[1].tmdb_id \in up.existing_tmdb_ids
                 THEN NextEntry([u EXCEPT !.already_ranked = @ + 1])
                 ELSE NextEntry(Emit(u,
                          BestMatchItem(CurrentMovie, outcome.results, <<>>)))
        /\ UNCHANGED <<now, sessions, user_sessions, issued, req, db_movies, db_rankings>>

\* The exception leaves the handler: 500, no session is created.
UploadFail ==
    /\ up.pc = "failed"
    /\ up' = IdleUpload
    /\ UNCHANGED <<now, sessions, user_sessions, issued, req, db_movies, db_rankings>>

\* Lines 372-390: create_session with the matched items and the counters.
UploadCreate ==
    /\ up.pc = "create"
    /\ issued' = Append(issued, up.uid)
    /\ SetStore(create_session(TheStore, Len(issued) + 1, up.uid, up.matched,
                   [total_entries |-> up.parse_result.total_entries,
                    movies_found |-> up.parse_result.movies_found,
                    tv_shows_filtered |-> up.parse_result.tv_shows_filtered,
                    already_ranked |-> up.already_ranked],
                   now))
    /\ up' = IdleUpload
    /\ UNCHANGED <<now, req, db_movies, db_rankings>>

\* ------------------------------------------------------- specifications
MatchInputs == {12}

\* Requests of the users in callers; those in owners also upload.
StartRequest(owners, callers, ratings, rated_ats) ==
    \/ \E u \in owners, movies \in UploadInputs : Upload(u, movies)
    \/ \E u \in callers, sid \in SessionIds : GetImportSession(u, sid)
    \/ \E r \in Reqs, u \in callers, sid \in SessionIds, i \in Indexes,
             rating \in ratings, rated_at \in rated_ats :
          AddStart(r, u, sid, i, rating, rated_at)
    \/ \E u \in callers, sid \in SessionIds, i \in Indexes : Skip(u, sid, i)
    \/ \E u \in callers, sid \in SessionIds, i \in Indexes, t \in MatchInputs :
          UpdateMatch(u, sid, i, t)
    \/ \E u \in callers, sid \in SessionIds : Cancel(u, sid)

ContinueRequest ==
    \/ \E r \in Reqs : AddSelectMovie(r)
    \/ \E r \in Reqs : AddInsertMovie(r)
    \/ \E r \in Reqs : AddSelectRanking(r)
    \/ \E r \in Reqs : AddWriteRanking(r)
    \/ \E r \in Reqs : AddCommit(r)

StoreCall ==
    \/ \E u \in Users, sid \in SessionIds, updates \in UpdateInputs :
          UpdateSession(u, sid, updates)
    \/ \E sid \in SessionIds : DeleteSession(sid)
    \/ CleanupExpired

\* The HTTP handlers in any interleaving: u1 uploads and reviews, u2 is
\* another authenticated user; the clock stands still.
Next == StartRequest({"u1"}, Users, {5}, {None}) \/ ContinueRequest

Spec == Init /\ [][Next]_vars

\* Sequential use of the HTTP handlers: a request starts when no other
\* request is in flight; the clock advances.
NextSeq ==
    \/ AllIdle /\ StartRequest({"u1"}, Users, Ratings, RatedAts)
    \/ ContinueRequest
    \/ Tick

SpecSeq == Init /\ [][NextSeq]_vars

\* Sequential use of the HTTP handlers and of the store's methods.
NextAll == (AllIdle /\ (StartRequest({"u1"}, Users, {5}, {None}) \/ StoreCall))
              \/ ContinueRequest \/ Tick

SpecAll == Init /\ [][NextAll]_vars

\* The store alone: its methods called in any order by both users
\* (create_session through Upload, get_session through GetImportSession).
NextStore ==
    \/ \E u \in Users, movies \in UploadInputs : Upload(u, movies)
    \/ \E u \in Users, sid \in SessionIds : GetImportSession(u, sid)
    \/ \E u \in Users, sid \in SessionIds : Cancel(u, sid)
    \/ StoreCall
    \/ Tick

SpecStore == Init /\ [][NextStore]_vars

\* ================================================================ claims
Owner(sid) == sessions[sid].user_id
ItemIndexes(sid) == 0..(Len(sessions[sid].movies) - 1)
Resolvable(sid) == sid \in DOMAIN sessions /\ ~IsExpired(sessions[sid], now)

\* The request has passed the checks of lines 479-505 and has not yet
\* written the item's status (line 604).
PassedCheck(r) ==
    req[r].pc \in {"select_movie", "insert_movie", "select_ranking", "write_ranking"}

\* C1: two overlapping Add requests on the same session and item index
\* never both pass the pending check.
C1_CheckThenSetAtomic ==
    \A r1, r2 \in Reqs :
        (r1 # r2 /\ PassedCheck(r1) /\ PassedCheck(r2))
            => ~(req[r1].sid = req[r2].sid /\ req[r1].index = req[r2].index)

\* C2: in sequential use, Add and Skip on an item that is no longer
\* pending answer "already processed" and leave the store as it is, and no
\* Add runs (so no rating is written) for an item that is not pending: a
\* rating is written only by the one Add that takes the item from pending
\* to added; the datastore holds one rating per user and movie and one
\* movie row per catalog id.
C2_ProcessedItemRejected ==
    /\ \A sid \in DOMAIN sessions : \A i \in ItemIndexes(sid) :
          (Resolvable(sid) /\ ItemAt(sessions[sid], i).status # "pending")
            => /\ add_import_movie_checks(TheStore, Owner(sid), sid, i, now)
                     = Result(AlreadyProcessed, TheStore)
               /\ skip_import_movie(TheStore, Owner(sid), sid, i, now)
                     = Result(AlreadyProcessed, TheStore)
    /\ \A r \in Reqs :
          /\ PassedCheck(r) =>
                /\ req[r].sid \in DOMAIN sessions
                /\ ItemAt(sessions[req[r].sid], req[r].index).status = "pending"
                /\ req[r].rank_write = None
          /\ req[r].pc = "commit" =>
                /\ req[r].sid \in DOMAIN sessions
                /\ ItemAt(sessions[req[r].sid], req[r].index).status = "added"
          /\ \A o \in Reqs \ {r} : Idle(r) \/ Idle(o)
    /\ \A k1, k2 \in db_rankings :
          (k1.user_id = k2.user_id /\ k1.movie_id = k2.movie_id) => k1 = k2
    /\ \A m1, m2 \in db_movies : m1.tmdb_id = m2.tmdb_id => m1 = m2

\* C2 witness: an item was added, its rating is committed, and the session
\* is still there for a second Add.
C2_Witness ==
    /\ AllIdle
    /\ \E sid \in DOMAIN sessions : \E i \in ItemIndexes(sid) :
          /\ Resolvable(sid)
          /\ ItemAt(sessions[sid], i).status = "added"
          /\ \E k \in db_rankings : k.user_id = Owner(sid)

\* C3: an item's status changes only from pending, to added or skipped.
C3_StatusOnlyLeavesPending ==
    [][\A sid \in DOMAIN sessions \cap DOMAIN sessions' :
         \A i \in 1..Len(sessions[sid].movies) :
            (/\ Len(sessions'[sid].movies) = Len(sessions[sid].movies)
             /\ sessions'[sid].movies[i].status # sessions[sid].movies[i].status)
               => /\ sessions[sid].movies[i].status = "pending"
                  /\ sessions'[sid].movies[i].status \in {"added", "skipped"}]_vars

\* C4: a get by the owner later than created_at + 30 minutes returns
\* not-found and removes the session and its owner index entry, so that
\* get_session_count is one less; at or before created_at + 30 minutes it
\* returns the session and removes nothing.
C4_GetExpires ==
    \A sid \in DOMAIN sessions :
        LET got == get_session(TheStore, sid, Owner(sid), now)
        IN  IF now > sessions[sid].created_at + SESSION_TTL_MINUTES
            THEN /\ ~got.found
                 /\ sid \notin DOMAIN got.st.sessions
                 /\ Owner(sid) \notin DOMAIN got.st.user_sessions
                 /\ get_session_count(got.st) = get_session_count(TheStore) - 1
                 /\ get_import_session(TheStore, Owner(sid), sid, now).resp = NotFound
            ELSE /\ got.found
                 /\ got.st = TheStore

\* C4 witness: a stored session is exactly 30 minutes old while another
\* stored session is older than 30 minutes.
C4_Witness ==
    \E a, b \in DOMAIN sessions :
        /\ now = sessions[a].created_at + SESSION_TTL_MINUTES
        /\ now > sessions[b].created_at + SESSION_TTL_MINUTES

\* C5: no step changes the created_at of a session that stays in the
\* store, a new session's created_at is the time of its creation, and a
\* session older than 30 minutes is not resolvable by get, update, Add,
\* Skip or UpdateMatch.
C5_CreatedAtFixed ==
    \A sid \in DOMAIN sessions' :
        IF sid \in DOMAIN sessions
        THEN sessions'[sid].created_at = sessions[sid].created_at
        ELSE sessions'[sid].created_at = now

C5_ExpiredUnresolvable ==
    \A sid \in DOMAIN sessions : \A u \in Users :
        now > sessions[sid].created_at + SESSION_TTL_MINUTES =>
            /\ ~get_session(TheStore, sid, u, now).found
            /\ \A updates \in UpdateInputs :
                  ~update_session(TheStore, sid, u, updates, now).found
            /\ \A i \in Indexes :
                  /\ add_import_movie_checks(TheStore, u, sid, i, now).resp = NotFound
                  /\ skip_import_movie(TheStore, u, sid, i, now).resp = NotFound
                  /\ \A t \in TmdbIds :
                        update_import_movie_match(TheStore, u, sid, i, t, now).resp
                            = NotFound

C5_TtlNotRenewed == [][C5_CreatedAtFixed]_vars /\ []C5_ExpiredUnresolvable

\* C5 witness: a session that was read and mutated (an item processed, a
\* match replaced) is older than 30 minutes.
C5_Witness ==
    \E sid \in DOMAIN sessions :
        /\ now > sessions[sid].created_at + SESSION_TTL_MINUTES
        /\ sessions[sid].added_count + sessions[sid].skipped_count > 0
        /\ \E i \in ItemIndexes(sid) : ItemAt(sessions[sid], i).confidence = 100

\* C6: once a later session id was issued to the same owner, get on the
\* earlier id returns not-found for every caller, in every later state.
C6_ReplacedUnresolvable ==
    \A a, b \in 1..Len(issued) :
        (a < b /\ issued[a] = issued[b]) =>
            /\ a \notin DOMAIN sessions
            /\ \A u \in Users : ~get_session(TheStore, a, u, now).found

\* C6 witness: the owner's second session is stored, the first is not.
C6_Witness ==
    /\ Len(issued) >= 2
    /\ issued[1] = issued[2]
    /\ 2 \in DOMAIN sessions

\* C7: at most one stored session per owner, and the owner index has an
\* entry for a user exactly when a session of that user is stored, and the
\* entry is that session's id.
C7_OneSessionPerOwner ==
    /\ \A a, b \in DOMAIN sessions : Owner(a) = Owner(b) => a = b
    /\ \A u \in Users :
          u \in DOMAIN user_sessions <=> \E sid \in DOMAIN sessions : Owner(sid) = u
    /\ \A u \in DOMAIN user_sessions :
          /\ user_sessions[u] \in DOMAIN sessions
          /\ Owner(user_sessions[u]) = u

\* C7 witness: of two sessions of different owners one was removed (by
\* delete, an expired get or a sweep) and the other is still stored.
C7_Witness ==
    /\ Len(issued) = 2
    /\ issued[1] # issued[2]
    /\ Cardinality(DOMAIN sessions) = 1
    /\ Cardinality(DOMAIN user_sessions) = 1

\* A session id that no create_session ever returned.
NeverIssued == MaxSessions + 1

\* C8: for a stored session (expired or not) and a caller other than its
\* owner, get, update, Add, Skip, UpdateMatch and Cancel answer as they do
\* for an id that never existed (not-found) and leave the store, with the
\* session in it, unchanged.
C8_NonOwnerNotFound ==
    \A sid \in DOMAIN sessions : \A u \in Users \ {Owner(sid)} :
        /\ get_session(TheStore, sid, u, now)
              = get_session(TheStore, NeverIssued, u, now)
        /\ get_session(TheStore, sid, u, now) = [found |-> FALSE, st |-> TheStore]
        /\ get_import_session(TheStore, u, sid, now) = Result(NotFound, TheStore)
        /\ get_import_session(TheStore, u, NeverIssued, now) = Result(NotFound, TheStore)
        /\ cancel_import_session(TheStore, u, sid, now) = Result(NotFound, TheStore)
        /\ cancel_import_session(TheStore, u, NeverIssued, now)
              = Result(NotFound, TheStore)
        /\ \A updates \in UpdateInputs :
              /\ update_session(TheStore, sid, u, updates, now)
                    = [found |-> FALSE, st |-> TheStore]
              /\ update_session(TheStore, NeverIssued, u, updates, now)
                    = [found |-> FALSE, st |-> TheStore]
        /\ \A i \in Indexes :
              /\ add_import_movie_checks(TheStore, u, sid, i, now)
                    = Result(NotFound, TheStore)
              /\ add_import_movie_checks(TheStore, u, NeverIssued, i, now)
                    = Result(NotFound, TheStore)
              /\ skip_import_movie(TheStore, u, sid, i, now)
                    = Result(NotFound, TheStore)
              /\ skip_import_movie(TheStore, u, NeverIssued, i, now)
                    = Result(NotFound, TheStore)
              /\ \A t \in TmdbIds :
                    /\ update_import_movie_match(TheStore, u, sid, i, t, now)
                          = Result(NotFound, TheStore)
                    /\ update_import_movie_match(TheStore, u, NeverIssued, i, t, now)
                          = Result(NotFound, TheStore)

\* C8 witness: a stored session with a pending item and a processed item
\* has expired, and another user exists to call.
C8_Witness ==
    \E sid \in DOMAIN sessions :
        /\ IsExpired(sessions[sid], now)
        /\ Users \ {Owner(sid)} # {}
        /\ \E i, j \in ItemIndexes(sid) :
              /\ ItemAt(sessions[sid], i).status = "pending"
              /\ ItemAt(sessions[sid], j).status # "pending"

\* C9: UpdateMatch by the owner on an item that is added or skipped is
\* rejected and leaves the item's tmdb_match, confidence and alternatives
\* as they were.
C9_UpdateMatchOnlyPending ==
    \A sid \in DOMAIN sessions : \A i \in ItemIndexes(sid) : \A t \in TmdbIds :
        (Resolvable(sid) /\ ItemAt(sessions[sid], i).status # "pending")
            => LET res == update_import_movie_match(TheStore, Owner(sid), sid, i, t, now)
               IN  /\ res.resp.code # 200
                   /\ ItemAt(res.st.sessions[sid], i) = ItemAt(sessions[sid], i)

\* The movie row a request's ranking write refers to.
RankedMovie(r) ==
    {m \in VisibleMovies(r) : m.id = req[r].movie_id}

\* C10: Add on a pending item without a match answers "cannot add without
\* match" and leaves the store as it is, so no item without a match is
\* ever added; after UpdateMatch stored a candidate, Add passes its checks
\* with the candidate's catalog id, runs to its commit without an error,
\* and its rating is written for the movie row of that catalog id.
C10_NoMatchNoAdd ==
    /\ \A sid \in DOMAIN sessions : \A i \in ItemIndexes(sid) :
          LET item == ItemAt(sessions[sid], i)
          IN  /\ (Resolvable(sid) /\ item.status = "pending" /\ item.tmdb_match = None)
                    => add_import_movie_checks(TheStore, Owner(sid), sid, i, now)
                          = Result(NoTmdbMatch, TheStore)
              /\ item.status = "added" => item.tmdb_match # None
              /\ (Resolvable(sid) /\ item.status = "pending") =>
                    \A cand \in TmdbIds :
                        LET upd == update_import_movie_match(TheStore, Owner(sid),
                                                             sid, i, cand, now)
                            res == add_import_movie_checks(upd.st, Owner(sid),
                                                           sid, i, now)
                        IN  /\ upd.resp.code = 200
                            /\ res.resp.code = 0
                            /\ res.tmdb_id = cand
                            /\ res.st = upd.st
    /\ \A r \in Reqs :
          /\ ~Idle(r) =>
                /\ req[r].sid \in DOMAIN sessions
                /\ ItemAt(sessions[req[r].sid], req[r].index).tmdb_match
                      = Some(TMDBMatchResult(req[r].tmdb_id))
          /\ req[r].pc = "select_movie" =>
                Cardinality({m \in VisibleMovies(r) : m.tmdb_id = req[r].tmdb_id}) <= 1
          /\ req[r].pc \in {"select_ranking", "write_ranking", "commit"} =>
                /\ RankedMovie(r) # {}
                /\ \A m \in RankedMovie(r) : m.tmdb_id = req[r].tmdb_id
          /\ req[r].pc = "write_ranking" =>
                /\ ~RankingLocked(r, req[r].uid, req[r].movie_id)
                /\ req[r].existing = Committed(req[r].uid, req[r].movie_id)
                /\ ~IndexOutOfRange(sessions[req[r].sid], req[r].index)
          /\ req[r].pc = "commit" =>
                /\ req[r].rank_write # None
                /\ req[r].rank_write[1].movie_id = req[r].movie_id
                /\ req[r].rank_write[1].user_id = Owner(req[r].sid)
    /\ \A k \in db_rankings : \E m \in db_movies : m.id = k.movie_id

\* C10 witness: the item uploaded without a match ("A") is added and the
\* owner's committed rating is for the movie of the candidate that
\* UpdateMatch supplied (catalog id 12), while item "B" is still pending.
C10_Witness ==
    /\ AllIdle
    /\ \E sid \in DOMAIN sessions :
          /\ Len(sessions[sid].movies) = 2
          /\ ItemAt(sessions[sid], 0).parsed.title = "A"
          /\ ItemAt(sessions[sid], 0).status = "added"
          /\ ItemAt(sessions[sid], 0).tmdb_match = Some(TMDBMatchResult(12))
          /\ ItemAt(sessions[sid], 1).status = "pending"
          /\ \E k \in db_rankings : \E m \in db_movies :
                /\ k.user_id = Owner(sid)
                /\ k.movie_id = m.id
                /\ m.tmdb_id = 12

\* Number of items of the session with the given status.
CountStatus(session, status) ==
    Cardinality({i \in 1..Len(session.movies) : session.movies[i].status = status})

\* C11: in every stored session added_count is the number of items with
\* status added and skipped_count the number with status skipped, so the
\* pending items number len(movies) - added_count - skipped_count.
C11_CountersMatchStatuses ==
    \A sid \in DOMAIN sessions :
        /\ sessions[sid].added_count = CountStatus(sessions[sid], "added")
        /\ sessions[sid].skipped_count = CountStatus(sessions[sid], "skipped")
        /\ CountStatus(sessions[sid], "pending")
              = Len(sessions[sid].movies) - sessions[sid].added_count
                    - sessions[sid].skipped_count

\* Rankings of the pair (user, movie) in a rankings table.
RankingsOf(table, user, movie) ==
    {k \in table : k.user_id = user /\ k.movie_id = movie}

\* C12: in sequential use the datastore holds at most one rating per
\* (owner, movie) pair and one movie per catalog id; the commit of an Add
\* leaves exactly one rating for its pair, carrying the request's rating
\* and its effective rated_at (also when the pair had a rating before),
\* and changes no rating of another pair.
C12_OneRatingPerPair ==
    /\ \A k1, k2 \in db_rankings :
          (k1.user_id = k2.user_id /\ k1.movie_id = k2.movie_id) => k1 = k2
    /\ \A m1, m2 \in db_movies : m1.tmdb_id = m2.tmdb_id => m1 = m2

C12_AddOverwrites ==
    \A r \in Reqs :
        (req[r].pc = "commit" /\ req'[r].pc = "idle") =>
            /\ RankingsOf(db_rankings', req[r].uid, req[r].movie_id)
                  = {[user_id |-> req[r].uid, movie_id |-> req[r].movie_id,
                      rating |-> req[r].rating,
                      rated_at |-> EffectiveRatedAt(req[r].rated_at,
                                                    req[r].watch_date,
                                                    req[r].stamp)]}
            /\ req[r].existing
                  = (RankingsOf(db_rankings, req[r].uid, req[r].movie_id) # {})
            /\ \A k \in db_rankings \cup db_rankings' :
                  (k.user_id # req[r].uid \/ k.movie_id # req[r].movie_id)
                      => (k \in db_rankings /\ k \in db_rankings')

C12_RatingUpserted == []C12_OneRatingPerPair /\ [][C12_AddOverwrites]_vars

\* C12 witness: two items of one session resolved to catalog id 12, both
\* were added with different ratings and timestamps, and the owner has one
\* rating, that of the later Add (item 0: rating 5 at the request's
\* rated_at).
C12_Witness ==
    /\ AllIdle
    /\ \E sid \in DOMAIN sessions :
          /\ Len(sessions[sid].movies) = 2
          /\ \A i \in ItemIndexes(sid) :
                /\ ItemAt(sessions[sid], i).status = "added"
                /\ ItemAt(sessions[sid], i).tmdb_match = Some(TMDBMatchResult(12))
          /\ sessions[sid].current_index = 1
          /\ db_rankings = {[user_id |-> Owner(sid), movie_id |-> 121,
                             rating |-> 5, rated_at |-> 30]}

\* The outcomes of Add (up to its first datastore call), Skip and
\* UpdateMatch on item index of session sid for caller u.
ItemOutcomes(u, sid, index) ==
    {add_import_movie_checks(TheStore, u, sid, index, now),
     skip_import_movie(TheStore, u, sid, index, now)}
    \cup {update_import_movie_match(TheStore, u, sid, index, t, now) : t \in TmdbIds}

\* The session is stored, owned by u and not expired.
ResolvableBy(u, sid) == Resolvable(sid) /\ Owner(sid) = u

\* The store without session sid and its owner's index entry, all other
\* sessions as they are.
StoreWithout(sid) ==
    Store([x \in DOMAIN sessions \ {sid} |-> sessions[x]],
          [x \in DOMAIN user_sessions \ {Owner(sid)} |-> user_sessions[x]])

\* The tables change only in the commit of an Add that passed its checks.
OnlyCommitWrites ==
    (db_movies' # db_movies \/ db_rankings' # db_rankings)
        => \E r \in Reqs : req[r].pc = "commit" /\ req'[r].pc = "idle"

\* C13 as stated: Add, Skip and UpdateMatch answer not-found for a session
\* that is missing, expired or owned by another user, and not-found for an
\* index below 0 or at or beyond len(movies), and the store is unchanged in
\* every such case.
C13_NotFoundChangesNothing ==
    \A u \in Users : \A sid \in SessionIds \cup {NeverIssued} : \A i \in Indexes :
        \A out \in ItemOutcomes(u, sid, i) :
            IF ~(sid \in DOMAIN sessions /\ ResolvableBy(u, sid))
            THEN out = Result(NotFound, TheStore)
            ELSE IndexOutOfRange(sessions[sid], i) => out = Result(OutOfRange, TheStore)

\* C13 amended: as above, except that for the owner's expired session the
\* store afterwards is the store without that session and its index entry
\* (the lookup removes it); the tables are written by no rejected request.
C13_NotFoundOutcome ==
    \A u \in Users : \A sid \in SessionIds \cup {NeverIssued} : \A i \in Indexes :
        \A out \in ItemOutcomes(u, sid, i) :
            IF sid \notin DOMAIN sessions \/ Owner(sid) # u
            THEN out = Result(NotFound, TheStore)
            ELSE IF IsExpired(sessions[sid], now)
            THEN out = Result(NotFound, StoreWithout(sid))
            ELSE IndexOutOfRange(sessions[sid], i) => out = Result(OutOfRange, TheStore)

C13_NotFoundAmended == []C13_NotFoundOutcome /\ [][OnlyCommitWrites]_vars

\* C13 witness: the owner's session with a processed item has expired and
\* is still stored, and a rating is committed.
C13_Witness ==
    /\ AllIdle
    /\ db_rankings # {}
    /\ \E sid \in DOMAIN sessions :
          /\ IsExpired(sessions[sid], now)
          /\ sessions[sid].added_count = 1
          /\ Len(sessions[sid].movies) = 2

\* -------------------------------------------------- upload specification
\* The datastore at the start: empty, or u1 has ranked the movie with
\* catalog id 11 (the state an earlier Add leaves).
RankedBefore ==
    { [movies |-> {}, rankings |-> {}],
      [movies |-> {[id |-> 111, tmdb_id |-> 11]},
       rankings |-> {[user_id |-> "u1", movie_id |-> 111, rating |-> 5,
                      rated_at |-> 0]}] }

InitUpload ==
    /\ now = 0
    /\ sessions = <<>>
    /\ user_sessions = <<>>
    /\ issued = <<>>
    /\ req = [r \in Reqs |-> IdleReq]
    /\ up = IdleUpload
    /\ \E db \in RankedBefore : db_movies = db.movies /\ db_rankings = db.rankings

\* Uploads of u1, one at a time, with every outcome of every search.
NextMatch ==
    \/ \E filename \in Filenames, file \in UploadFiles : UploadStart("u1", filename, file)
    \/ UploadSelectExisting
    \/ \E outcome \in SearchOutcomes : UploadSearch(outcome)
    \/ \E outcome \in SearchOutcomes : UploadRetry(outcome)
    \/ UploadFail
    \/ UploadCreate

SpecMatch == InitUpload /\ [][NextMatch]_vars

\* Uploads of u1, one at a time, with every outcome of every search, and
\* Adds of u1 on the sessions created, also while an upload is matching.
NextUpload ==
    \/ NextMatch
    \/ \E sid \in SessionIds, i \in Indexes : AddStart("r1", "u1", sid, i, 5, None)
    \/ ContinueRequest

SpecUpload == InitUpload /\ [][NextUpload]_vars

\* The searches made for entry i (0-based), in order.
SearchesOf(i) ==
    SelectSeq(up.searches, LAMBDA srch : srch.i = i)

\* The outcome that decided entry i: that of its last search.
LastOutcome(i) == SearchesOf(i)[Len(SearchesOf(i))].outcome

\* Entry i was left out as already ranked.
Excluded(i) ==
    /\ LastOutcome(i).raised = ""
    /\ LastOutcome(i).results # <<>>
    /\ LastOutcome(i).results[1].tmdb_id \in up.existing_tmdb_ids

\* The entries whose matching has ended.
Decided ==
    IF up.pc \in {"search", "retry", "create", "failed"}
    THEN {i \in 0..(Len(up.parse_result.movies) - 1) : i < up.i}
    ELSE {}

\* The position in matched of the item of a decided entry that was not
\* left out.
ItemPos(i) == Cardinality({j \in Decided : j < i /\ ~Excluded(j)}) + 1

\* The entries whose failure the loop absorbed are no-match items.
FailuresAbsorbed ==
    \A i \in Decided :
        (LastOutcome(i).raised # "" /\ ~(up.pc = "failed" /\ i = up.i)) =>
            /\ ItemPos(i) <= Len(up.matched)
            /\ up.matched[ItemPos(i)] = NoMatchItem(up.parse_result.movies[i + 1])

\* C14: whatever failure the catalog produces for an entry (rate limit
\* followed by a failed retry, API error, timeout, any exception), the
\* entry becomes a no-match item, the loop goes on to the entries after
\* it, and match_movies_with_tmdb never ends with an exception.
C14_EntryFailuresIsolated ==
    /\ up.pc # "failed"
    /\ FailuresAbsorbed


\* ----------------------------------------------------- cap specification
\* A match result of n items, the k-th with catalog id k.
LongResult(n) ==
    [k \in 1..n |-> [MatchedItem EXCEPT !.tmdb_match = Some(TMDBMatchResult(k))]]

\* Lengths of match results around the cap.
CapLengths ==
    {0, 1} \cup ((MAX_MOVIES_PER_SESSION - 1)..(MAX_MOVIES_PER_SESSION + CapSlack))

\* Uploads of both users whose match results have the lengths above, and
\* their cancels.
NextCap ==
    \/ \E u \in Users, n \in CapLengths : Upload(u, LongResult(n))
    \/ \E u \in Users, sid \in SessionIds : Cancel(u, sid)

SpecCap == Init /\ [][NextCap]_vars

\* C15: a session created from a match result of more than 500 items
\* holds its first 500 items in their order, one created from at most 500
\* items holds all of them in order, and create_session yields a session
\* in every case.
C15_FirstItemsKept ==
    /\ \A sid \in DOMAIN sessions :
          /\ Len(sessions[sid].movies)
                = Min(sessions[sid].movies_found, MAX_MOVIES_PER_SESSION)
          /\ \A k \in 1..Len(sessions[sid].movies) :
                sessions[sid].movies[k] = LongResult(sessions[sid].movies_found)[k]
    /\ \A u \in Users : \A n \in CapLengths :
          LET sid == Len(issued) + 1
              st == create_session(TheStore, sid, u, LongResult(n),
                                   Stats(LongResult(n)), now)
          IN  /\ sid \in DOMAIN st.sessions
              /\ st.user_sessions[u] = sid
              /\ st.sessions[sid].movies
                    = SubSeq(LongResult(n), 1, Min(n, MAX_MOVIES_PER_SESSION))

\* C15 witness: a session made from a match result of more than 500 items
\* holds 500 items, the last with catalog id 500.
C15_Witness ==
    \E sid \in DOMAIN sessions :
        /\ sessions[sid].movies_found > MAX_MOVIES_PER_SESSION
        /\ Len(sessions[sid].movies) = MAX_MOVIES_PER_SESSION
        /\ sessions[sid].movies[MAX_MOVIES_PER_SESSION].tmdb_match
              = Some(TMDBMatchResult(MAX_MOVIES_PER_SESSION))

\* Every request on session id sid, by any caller, is answered not-found
\* in store st and leaves st as it is.
Unresolvable(st, sid) ==
    \A u \in Users :
        /\ get_import_session(st, u, sid, now) = Result(NotFound, st)
        /\ cancel_import_session(st, u, sid, now) = Result(NotFound, st)
        /\ \A i \in Indexes :
              /\ add_import_movie_checks(st, u, sid, i, now) = Result(NotFound, st)
              /\ skip_import_movie(st, u, sid, i, now) = Result(NotFound, st)
              /\ \A t \in TmdbIds :
                    update_import_movie_match(st, u, sid, i, t, now)
                        = Result(NotFound, st)

\* A session id that left the store stays out, and a step that changes
\* the set of stored sessions writes no table.
RemovedStaysRemoved ==
    /\ \A sid \in 1..Len(issued) :
          sid \notin DOMAIN sessions => sid \notin DOMAIN sessions'
    /\ DOMAIN sessions' # DOMAIN sessions
          => (db_movies' = db_movies /\ db_rankings' = db_rankings)

\* C16: Cancel by the owner answers 204 and removes the session; from
\* then on get, Add, Skip, UpdateMatch and Cancel on its id are answered
\* not-found, and the movies and ratings committed by the session's
\* earlier Adds stay as they are.
C16_CancelOutcome ==
    /\ \A sid \in DOMAIN sessions :
          Resolvable(sid) =>
              LET res == cancel_import_session(TheStore, Owner(sid), sid, now)
              IN  /\ res.resp = Response(204, "")
                  /\ res.st = StoreWithout(sid)
                  /\ Unresolvable(res.st, sid)
    /\ \A sid \in 1..Len(issued) :
          sid \notin DOMAIN sessions => Unresolvable(TheStore, sid)

C16_CancelKeepsRatings == []C16_CancelOutcome /\ [][RemovedStaysRemoved]_vars

\* C16 witness: the only session ever created was cancelled (the clock has
\* not moved, so it did not expire) after one of its items was added, and
\* the rating is in the datastore.
C16_Witness ==
    /\ now = 0
    /\ Len(issued) = 1
    /\ sessions = <<>>
    /\ AllIdle
    /\ db_rankings # {}

\* C17: UpdateMatch by the owner on a pending item answers 200, sets the
\* item's tmdb_match to the candidate, its confidence to 1.0 and its
\* alternatives to the empty list, and changes nothing else: status and
\* parsed entry of the item, the other items, the counters, the cursor,
\* created_at, the other sessions and the owner index; no table is
\* written; Add and Skip on the item are accepted afterwards.
C17_UpdateMatchFrame ==
    \A sid \in DOMAIN sessions : \A i \in ItemIndexes(sid) : \A cand \in TmdbIds :
        (Resolvable(sid) /\ ItemAt(sessions[sid], i).status = "pending") =>
            LET res == update_import_movie_match(TheStore, Owner(sid), sid, i, cand, now)
                item == ItemAt(res.st.sessions[sid], i)
            IN  /\ res.resp = Response(200, "")
                /\ item = [ItemAt(sessions[sid], i) EXCEPT
                              !.tmdb_match = Some(TMDBMatchResult(cand)),
                              !.confidence = 100,
                              !.alternatives = <<>>]
                /\ item.status = "pending"
                /\ item.parsed = ItemAt(sessions[sid], i).parsed
                /\ res.st.user_sessions = user_sessions
                /\ DOMAIN res.st.sessions = DOMAIN sessions
                /\ \A o \in DOMAIN sessions \ {sid} : res.st.sessions[o] = sessions[o]
                /\ \A f \in DOMAIN sessions[sid] \ {"movies"} :
                      res.st.sessions[sid][f] = sessions[sid][f]
                /\ Len(res.st.sessions[sid].movies) = Len(sessions[sid].movies)
                /\ \A j \in ItemIndexes(sid) \ {i} :
                      ItemAt(res.st.sessions[sid], j) = ItemAt(sessions[sid], j)
                /\ add_import_movie_checks(res.st, Owner(sid), sid, i, now).resp.code = 0
                /\ skip_import_movie(res.st, Owner(sid), sid, i, now).resp
                      = Response(204, "")

C17_UpdateMatchOnlyMatch == []C17_UpdateMatchFrame /\ [][OnlyCommitWrites]_vars

\* C17 witness: the match of pending item "B", which had an alternative,
\* was replaced by catalog id 12 after item "A" of the session was
\* processed.
C17_Witness ==
    \E sid \in DOMAIN sessions :
        /\ Len(sessions[sid].movies) = 2
        /\ ItemAt(sessions[sid], 0).status # "pending"
        /\ ItemAt(sessions[sid], 1) =
              [MatchedItem EXCEPT !.tmdb_match = Some(TMDBMatchResult(12)),
                                  !.confidence = 100, !.alternatives = <<>>]

\* The catalog ids of the movies user u has a committed ranking for.
RankedTmdbIds(u) ==
    {m.tmdb_id : m \in {x \in db_movies :
                          \E k \in db_rankings : k.movie_id = x.id /\ k.user_id = u}}

\* existing_tmdb_ids is read from the tables when matching starts and
\* stays as read while the entries are matched.
ExistingReadAtStart ==
    /\ (up.pc = "select_existing" /\ up'.pc = "search")
          => up'.existing_tmdb_ids = RankedTmdbIds(up.uid)
    /\ (up.pc \in {"search", "retry"} /\ up'.pc \in {"search", "retry", "create", "failed"})
          => up'.existing_tmdb_ids = up.existing_tmdb_ids

\* C18: an entry whose top catalog result has a catalog id in the set of
\* ids the owner had ranked when matching started yields no item and adds
\* one to already_ranked; every other entry yields exactly one item, in
\* input order; emitted items plus already_ranked number the entries.
C18_Counts ==
    /\ up.pc \in {"search", "retry", "create"} =>
          /\ Len(up.matched) = Cardinality({i \in Decided : ~Excluded(i)})
          /\ up.already_ranked = Cardinality({i \in Decided : Excluded(i)})
          /\ \A i \in Decided :
                ~Excluded(i) =>
                    /\ up.matched[ItemPos(i)].parsed
                          = ParsedMovieItem(up.parse_result.movies[i + 1])
                    /\ up.matched[ItemPos(i)].status = "pending"
                    /\ up.matched[ItemPos(i)].tmdb_match # None =>
                          /\ up.matched[ItemPos(i)].tmdb_match[1].tmdb_id
                                = LastOutcome(i).results[1].tmdb_id
                          /\ up.matched[ItemPos(i)].tmdb_match[1].tmdb_id
                                \notin up.existing_tmdb_ids
    /\ up.pc = "create" =>
          /\ Decided = 0..(Len(up.parse_result.movies) - 1)
          /\ Len(up.matched) + up.already_ranked = Len(up.parse_result.movies)

ReturnedResults ==
    UNION { {srch.outcome.results[k] : k \in 1..Len(srch.outcome.results)} :
            srch \in {up.searches[n] : n \in {m \in 1..Len(up.searches) :
                                                up.searches[m].outcome.raised = ""}} }

\* The entries of this upload.
ParsedEntries ==
    IF up.parse_result = None THEN {}
    ELSE {up.parse_result.movies[k] : k \in 1..Len(up.parse_result.movies)}

\* The confidence the claim prescribes, in hundredths: 0.6 times the
\* title similarity plus the year bonus, at most 1.0.
PrescribedConfidence(parsed_title, parsed_year, tmdb_title, tmdb_year) ==
    LET bonus == IF parsed_year = None \/ tmdb_year = None THEN 0
                 ELSE IF parsed_year = tmdb_year THEN 40
                 ELSE IF parsed_year[1] = tmdb_year[1] + 1
                         \/ tmdb_year[1] = parsed_year[1] + 1 THEN 20
                 ELSE 0
        sum == title_ratio_weighted(parsed_title, tmdb_title) + bonus
    IN  IF sum > 100 THEN 100 ELSE sum

\* C19: every emitted item has 0.0 <= confidence <= 1.0; the confidence
\* of a matched item is min(1.0, 0.6 * title similarity + year bonus) of
\* its entry and its top result, with bonus 0.4 for equal years, 0.2 for
\* years one apart and 0 otherwise or when a year is absent; identical
\* titles (ignoring case) with equal years give 1.0; an item without a
\* candidate has confidence exactly 0.0.
C19_ConfidenceRange ==
    /\ \A k \in 1..Len(up.matched) :
          /\ up.matched[k].confidence >= 0
          /\ up.matched[k].confidence <= 100
          /\ up.matched[k].tmdb_match = None => up.matched[k].confidence = 0
    /\ \A i \in Decided :
          (up.pc # "failed" /\ ~Excluded(i) /\ LastOutcome(i).raised = ""
              /\ LastOutcome(i).results # <<>>) =>
                up.matched[ItemPos(i)].confidence
                    = PrescribedConfidence(up.parse_result.movies[i + 1].title,
                                           up.parse_result.movies[i + 1].year,
                                           LastOutcome(i).results[1].title,
                                           LastOutcome(i).results[1].year)
    /\ \A movie \in ParsedEntries : \A result \in ReturnedResults :
          LET conf == calculate_confidence(movie.title, movie.year,
                                           result.title, result.year)
          IN  /\ conf >= 0
              /\ conf <= 100
              /\ conf = PrescribedConfidence(movie.title, movie.year,
                                             result.title, result.year)
              /\ (lower(movie.title) = lower(result.title) /\ movie.year # None
                    /\ movie.year = result.year) => conf = 100
              /\ (movie.year = None \/ result.year = None) => conf <= 60

\* C19 witness: matching emitted an item with confidence 1.0 for an
\* entry whose top result has the same title in another case and the same
\* year, and an item without a candidate.
C19_Witness ==
    /\ up.pc = "create"
    /\ \E a, c \in 1..Len(up.matched) :
          /\ up.matched[a].confidence = 100
          /\ up.matched[a].tmdb_match = Some(TMDBMatchResult(12))
          /\ up.matched[c].tmdb_match = None
          /\ up.matched[c].confidence = 0


\* ------------------------------------------------------------ CSV inputs
MaxRows == 2

\* Rows of an export: movie rows (also in other case, with blanks around
\* the cells), a series row, rows with an empty and a blank title, and
\* rows that end before the last column of the header.
CsvRows ==
    { MovieRow("1995-12-15", "Heat"),
      <<"1996", "MOVIE", "Ronin", "">>,
      <<"", " Movie ", " Heat ", "">>,
      <<"1995-12-15", "TV Series", "Heat", "">>,
      <<"", "Movie", "  ", "">>,
      <<"", "TV Series", "", "">>,
      <<"1995-12-15", "Movie", "Heat">>,
      <<"1995-12-15", "TV Series">>,
      <<"1995-12-15">> }

\* Headers with the required columns, with and without the optional
\* image column, and one without a required column.
ValidHeaders == {AmazonHeader, <<"Date Watched", "Type", "Title">>}

CsvHeaders == ValidHeaders \cup {<<"Date Watched", "Type">>}

CsvFiles ==
    {None} \cup
    { CsvFile(fieldnames, rows) :
        fieldnames \in CsvHeaders,
        rows \in UNION {[1..n -> CsvRows] : n \in 0..MaxRows} }

\* upload_amazon_prime_csv, lines 352-353: the uploaded file is parsed.
ParseCsv(file) ==
    /\ up.pc = "idle"
    /\ up' = [pc |-> "parsed", file |-> file,
              parse_result |-> parse_amazon_prime_csv(file)]
    /\ UNCHANGED <<now, sessions, user_sessions, issued, req, db_movies, db_rankings>>

\* The parse result has been used.
ParseReturn ==
    /\ up.pc = "parsed"
    /\ up' = IdleUpload
    /\ UNCHANGED <<now, sessions, user_sessions, issued, req, db_movies, db_rankings>>

NextParse ==
    \/ \E file \in CsvFiles : ParseCsv(file)
    \/ ParseReturn

SpecParse == InitUpload /\ [][NextParse]_vars

\* The cell of a row under a column, "" when the row has none.
CellOf(fieldnames, cells, key) ==
    IF ColumnOf(fieldnames, key) = 0 \/ ColumnOf(fieldnames, key) > Len(cells)
    THEN ""
    ELSE cells[ColumnOf(fieldnames, key)]

\* A row whose title is empty or blank.
HasEmptyTitle(fieldnames, cells) == strip(CellOf(fieldnames, cells, "Title")) = ""

\* A row whose type is "movie" in any case and whose title is not empty.
IsMovieRow(fieldnames, cells) ==
    /\ lower(strip(CellOf(fieldnames, cells, "Type"))) = "movie"
    /\ ~HasEmptyTitle(fieldnames, cells)

CountRows(rows, Test(_)) == Cardinality({k \in 1..Len(rows) : Test(rows[k])})

\* A file was parsed whose header has the required columns.
ParsedValid ==
    /\ up.pc = "parsed"
    /\ up.file # None
    /\ up.file[1].fieldnames \in ValidHeaders

\* What the claim prescribes for the parsed file.
CountsAsPrescribed ==
    LET fieldnames == up.file[1].fieldnames
        rows == up.file[1].rows
        movie_rows == SelectSeq(rows, LAMBDA cells : IsMovieRow(fieldnames, cells))
        result == up.parse_result
    IN  /\ result.movies_found = Len(movie_rows)
        /\ result.parse_errors
              = CountRows(rows, LAMBDA cells : HasEmptyTitle(fieldnames, cells))
        /\ result.tv_shows_filtered
              = Len(rows) - result.movies_found - result.parse_errors
        /\ result.total_entries = Len(rows)
        /\ result.total_entries
              = result.movies_found + result.tv_shows_filtered + result.parse_errors
        /\ Len(result.movies) = Len(movie_rows)
        /\ \A k \in 1..Len(movie_rows) :
              result.movies[k].title = strip(CellOf(fieldnames, movie_rows[k], "Title"))

\* C20: for every CSV with valid headers, movies_found is the number of
\* rows whose type is "movie" ignoring case and whose title is not
\* empty, a row with an empty or blank title is counted in parse_errors
\* only, tv_shows_filtered counts all remaining rows, total_entries is the
\* sum of the three, and the entries are in the order of their rows.
C20_ParserCounts == ParsedValid => CountsAsPrescribed

\* Every row of the parsed file has a cell under every column of the
\* header.
FullRows ==
    \A k \in 1..Len(up.file[1].rows) :
        Len(up.file[1].rows[k]) >= Len(up.file[1].fieldnames)

\* For files of full rows the parser counts as prescribed; for all files
\* the three counters add up to the number of rows.
ParserCountsFullRows ==
    ParsedValid =>
        /\ FullRows => CountsAsPrescribed
        /\ up.parse_result.total_entries = Len(up.file[1].rows)
        /\ up.parse_result.total_entries
              = up.parse_result.movies_found + up.parse_result.tv_shows_filtered
                    + up.parse_result.parse_errors

\* A file with a movie row that ends before the image column was parsed.
ShortMovieRowParsed ==
    /\ ParsedValid
    /\ up.file[1].fieldnames = AmazonHeader
    /\ up.file[1].rows = <<<<"1995-12-15", "Movie", "Heat">>>>
    /\ up.parse_result.movies_found = 0
    /\ up.parse_result.parse_errors = 1

\* C21: cleanup_expired deletes every session older than 30 minutes
\* together with its owner's index entry, leaves every other session and
\* its index entry as they are, and returns the number of sessions it
\* deleted (0 when none is expired).
C21_CleanupExpired ==
    LET res == cleanup_expired(TheStore, now)
    IN  /\ \A sid \in DOMAIN sessions :
              IF now - sessions[sid].created_at > SESSION_TTL_MINUTES
              THEN /\ sid \notin DOMAIN res.st.sessions
                   /\ Owner(sid) \notin DOMAIN res.st.user_sessions
              ELSE /\ sid \in DOMAIN res.st.sessions
                   /\ res.st.sessions[sid] = sessions[sid]
                   /\ Owner(sid) \in DOMAIN res.st.user_sessions
                   /\ res.st.user_sessions[Owner(sid)] = user_sessions[Owner(sid)]
        /\ DOMAIN res.st.sessions \subseteq DOMAIN sessions
        /\ DOMAIN res.st.user_sessions \subseteq DOMAIN user_sessions
        /\ res.count = Cardinality(DOMAIN sessions) - Cardinality(DOMAIN res.st.sessions)
        /\ res.count = get_session_count(TheStore) - get_session_count(res.st)
        /\ (\A sid \in DOMAIN sessions :
               now - sessions[sid].created_at <= SESSION_TTL_MINUTES)
              => (res.count = 0 /\ res.st = TheStore)

\* C21 witness: the store holds one expired and one unexpired session and
\* the sweep removes exactly the expired one.
C21_Witness ==
    /\ Cardinality(DOMAIN sessions) = 2
    /\ \E a, b \in DOMAIN sessions :
          /\ now - sessions[a].created_at > SESSION_TTL_MINUTES
          /\ now - sessions[b].created_at <= SESSION_TTL_MINUTES
          /\ cleanup_expired(TheStore, now).count = 1

\* Session new is session old after item i (0-based) was processed with
\* the given status: only that item's status differs, the counter of the
\* status is one higher, the cursor is i + 1, all else is equal.
ProcessedFrame(old, new, i, status) ==
    /\ Len(new.movies) = Len(old.movies)
    /\ \A k \in 1..Len(old.movies) :
          IF k = i + 1
          THEN /\ new.movies[k].status = status
               /\ new.movies[k] = [old.movies[k] EXCEPT !.status = status]
          ELSE new.movies[k] = old.movies[k]
    /\ new.added_count = old.added_count + (IF status = "added" THEN 1 ELSE 0)
    /\ new.skipped_count = old.skipped_count + (IF status = "skipped" THEN 1 ELSE 0)
    /\ new.current_index = i + 1
    /\ new.created_at = old.created_at
    /\ new.user_id = old.user_id
    /\ new.total_entries = old.total_entries
    /\ new.movies_found = old.movies_found
    /\ new.tv_shows_filtered = old.tv_shows_filtered
    /\ new.already_ranked = old.already_ranked

\* The step changes a status, a counter or the cursor of a session that
\* stays in the store.
ProcessesItem(sid) ==
    /\ sid \in DOMAIN sessions'
    /\ \/ sessions'[sid].added_count # sessions[sid].added_count
       \/ sessions'[sid].skipped_count # sessions[sid].skipped_count
       \/ sessions'[sid].current_index # sessions[sid].current_index
       \/ \E k \in 1..Len(sessions[sid].movies) :
             \/ k > Len(sessions'[sid].movies)
             \/ sessions'[sid].movies[k].status # sessions[sid].movies[k].status

\* Every step that processes an item is a successful Add or Skip of one
\* item of one session, within the frame above; the other sessions, the
\* owner index and the tables stay as they are, and a Skip leaves the
\* requests in flight alone.
C22_StepFrame ==
    \A sid \in DOMAIN sessions :
        ProcessesItem(sid) =>
            /\ \E i \in ItemIndexes(sid), status \in {"added", "skipped"} :
                  /\ ProcessedFrame(sessions[sid], sessions'[sid], i, status)
                  /\ status = "skipped" => req' = req
                  /\ status = "added" =>
                        \E r \in Reqs : /\ req[r].pc = "write_ranking"
                                        /\ req[r].sid = sid /\ req[r].index = i
                                        /\ req'[r].pc = "commit"
            /\ \A o \in DOMAIN sessions \ {sid} :
                  o \in DOMAIN sessions' /\ sessions'[o] = sessions[o]
            /\ user_sessions' = user_sessions
            /\ db_movies' = db_movies
            /\ db_rankings' = db_rankings

\* A successful Skip, as a function of the store: 204, the frame above for
\* the session, nothing else in the store changes.
C22_SkipFrame ==
    \A sid \in DOMAIN sessions : \A u \in Users : \A i \in Indexes :
        LET res == skip_import_movie(TheStore, u, sid, i, now)
        IN  res.resp.code = 204 =>
              /\ u = Owner(sid)
              /\ i \in ItemIndexes(sid)
              /\ ItemAt(sessions[sid], i).status = "pending"
              /\ DOMAIN res.st.sessions = DOMAIN sessions
              /\ ProcessedFrame(sessions[sid], res.st.sessions[sid], i, "skipped")
              /\ \A o \in DOMAIN sessions \ {sid} : res.st.sessions[o] = sessions[o]
              /\ res.st.user_sessions = user_sessions

\* C22: a successful Add or Skip on item i changes only item i's status,
\* adds exactly 1 to the matching counter only, and sets the cursor to
\* i + 1 whatever it was; every other item, the other counter, created_at,
\* the owner and the summary counters are unchanged, and Skip writes
\* nothing to the datastore.
C22_AddSkipFrame == [][C22_StepFrame]_vars /\ []C22_SkipFrame

\* C22 witness: item 1 was processed before item 0, one by Add and one by
\* Skip, so the cursor went back from 2 to 1.
C22_Witness ==
    \E sid \in DOMAIN sessions :
        /\ Len(sessions[sid].movies) = 2
        /\ sessions[sid].current_index = 1
        /\ sessions[sid].added_count = 1
        /\ sessions[sid].skipped_count = 1
        /\ sessions[sid].movies[2].status = "added"

\* The entries that were not left out and whose last search returned a
\* non-empty result list.
MatchedEntries ==
    {i \in Decided : /\ up.pc # "failed"
                     /\ LastOutcome(i).raised = ""
                     /\ LastOutcome(i).results # <<>>
                     /\ ~Excluded(i)}

\* The catalog ids of the results after the first, at most two, in the
\* order of the result list.
NextTwo(results) ==
    [k \in 1..(Min(3, Len(results)) - 1) |-> TMDBMatchResult(results[k + 1].tmdb_id)]

\* The best match of the item of entry i is the first result; none of its
\* alternatives is the best match.
BestIsFirst(i) ==
    LET item == up.matched[ItemPos(i)]
    IN  /\ item.tmdb_match = Some(TMDBMatchResult(LastOutcome(i).results[1].tmdb_id))
        /\ \A k \in 1..Len(item.alternatives) : item.alternatives[k] # item.tmdb_match[1]

\* C23: for every entry whose catalog query (the first attempt, or the
\* retry after a rate-limit signal) returns a non-empty list r, the item
\* has best match r[0] and as alternatives the next up to two results of
\* r in catalog order, without the best match.
C23_BestAndAlternatives ==
    \A i \in MatchedEntries :
        /\ BestIsFirst(i)
        /\ up.matched[ItemPos(i)].alternatives = NextTwo(LastOutcome(i).results)

\* What holds of the two paths: the best match is the first result on
\* both; the alternatives are the next up to two results after a first
\* attempt and none after a retry.
AlternativesByPath ==
    \A i \in MatchedEntries :
        /\ BestIsFirst(i)
        /\ up.matched[ItemPos(i)].alternatives
              = IF Len(SearchesOf(i)) = 1 THEN NextTwo(LastOutcome(i).results)
                ELSE <<>>

\* An entry was matched on the retry, from a list of four results.
RetryMatchedLongList ==
    /\ up.pc = "create"
    /\ \E i \in MatchedEntries :
          /\ Len(SearchesOf(i)) = 2
          /\ Len(LastOutcome(i).results) = 4
          /\ up.matched[ItemPos(i)].alternatives = <<>>

\* The entries of the upload being matched (0-based).
EntryIndexes ==
    IF up.pc \in {"search", "retry", "create", "failed"}
    THEN 0..(Len(up.parse_result.movies) - 1)
    ELSE {}

\* C24: for each entry the matcher issues at most two catalog queries; the
\* first carries the entry's year, the second is issued only after the
\* first raised the rate-limit signal, once, and without a year hint; a
\* rate-limit signal on the retry makes the entry a no-match item; matching
\* n entries issues at most 2n queries.
C24_AtMostOneRetry ==
    /\ \A i \in EntryIndexes :
          LET srch == SearchesOf(i)
          IN  /\ Len(srch) <= 2
              /\ Len(srch) >= 1 => srch[1].year = up.parse_result.movies[i + 1].year
              /\ Len(srch) = 2 => /\ srch[1].outcome.raised = "rate_limit"
                                  /\ srch[2].year = None
              /\ (i \in Decided /\ srch[1].outcome.raised = "rate_limit")
                    => Len(srch) = 2
              /\ (i \in Decided /\ srch[1].outcome.raised # "rate_limit")
                    => Len(srch) = 1
              /\ (i \in Decided /\ up.pc # "failed" /\ Len(srch) = 2
                    /\ srch[2].outcome.raised = "rate_limit")
                    => up.matched[ItemPos(i)]
                          = NoMatchItem(up.parse_result.movies[i + 1])
              /\ (i \notin Decided /\ i # up.i) => srch = <<>>
    /\ up.pc \in {"search", "retry", "create", "failed"}
          => Len(up.searches) <= 2 * Len(up.parse_result.movies)
    /\ up.pc \in {"idle", "select_existing"} => up.searches = <<>>

\* C24 witness: matching two entries has ended after four queries, the
\* retry of one entry having been rate-limited as well.
C24_Witness ==
    /\ up.pc = "create"
    /\ Len(up.parse_result.movies) = 2
    /\ Len(up.searches) = 4
    /\ \E i \in Decided :
          /\ SearchesOf(i)[2].outcome.raised = "rate_limit"
          /\ up.matched[ItemPos(i)].tmdb_match = None

\* A row whose type is not "movie" in any case.
IsOtherType(fieldnames, cells) ==
    lower(strip(CellOf(fieldnames, cells, "Type"))) # "movie"

\* C25: the type filter comes before the title validation: every row
\* whose type is not "movie" (ignoring case) is counted in
\* tv_shows_filtered and never in parse_errors, whatever its title, and
\* only a row of type "movie" is counted in parse_errors for an empty or
\* blank title.  Stated for files whose rows have all their cells.
C25_TypeFilterFirst ==
    (ParsedValid /\ FullRows) =>
        LET fieldnames == up.file[1].fieldnames
            rows == up.file[1].rows
        IN  /\ up.parse_result.tv_shows_filtered
                  = CountRows(rows, LAMBDA cells : IsOtherType(fieldnames, cells))
            /\ up.parse_result.parse_errors
                  = CountRows(rows, LAMBDA cells :
                                 ~IsOtherType(fieldnames, cells)
                                 /\ HasEmptyTitle(fieldnames, cells))

\* C25 as amended: the title validation comes before the type filter.  A
\* row with an empty or blank title is counted in parse_errors whatever
\* its type, and only a row with a title whose type is not "movie" is
\* counted in tv_shows_filtered; for files whose rows have all their
\* cells the two counters are exactly these numbers.
C25_TitleCheckFirst ==
    ParsedValid =>
        LET fieldnames == up.file[1].fieldnames
            rows == up.file[1].rows
            untitled == CountRows(rows, LAMBDA cells : HasEmptyTitle(fieldnames, cells))
            others == CountRows(rows, LAMBDA cells :
                                   IsOtherType(fieldnames, cells)
                                   /\ ~HasEmptyTitle(fieldnames, cells))
        IN  /\ up.parse_result.parse_errors >= untitled
            /\ up.parse_result.tv_shows_filtered <= others
            /\ FullRows => /\ up.parse_result.parse_errors = untitled
                           /\ up.parse_result.tv_shows_filtered = others

\* C25 witness: a file with a series row without a title and a movie row
\* was parsed; the series row is the one error, no row was filtered.
C25_Witness ==
    /\ ParsedValid
    /\ up.file[1].rows = <<<<"", "TV Series", "", "">>, MovieRow("1995-12-15", "Heat")>>
    /\ up.parse_result.tv_shows_filtered = 0
    /\ up.parse_result.parse_errors = 1
    /\ up.parse_result.movies_found = 1

\* C26: after any interleaving of Add requests whose items resolve to the
\* same catalog id, the table movies holds one row with that catalog id
\* and every rating written for it references that row.
C26_OneMoviePerCatalogId ==
    /\ \A m1, m2 \in db_movies : m1.tmdb_id = m2.tmdb_id => m1 = m2
    /\ \A k \in db_rankings : \E m \in db_movies : m.id = k.movie_id

\* Two items of one session, both resolved to catalog id 12, were added
\* once each by overlapping requests, and movies holds two rows with
\* catalog id 12.
TwoRowsForOneCatalogId ==
    /\ AllIdle
    /\ \E sid \in DOMAIN sessions :
          /\ Len(sessions[sid].movies) = 2
          /\ sessions[sid].added_count = 2
          /\ \A k \in 1..2 : sessions[sid].movies[k].status = "added"
    /\ Cardinality({m \in db_movies : m.tmdb_id = 12}) = 2
    /\ Cardinality(db_rankings) = 2

\* The step in which request r writes its ranking row (UPDATE or INSERT,
\* flushed into its transaction).
WritesRanking(r) == req[r].rank_write = None /\ req'[r].rank_write # None

\* Every ranking row is written by an Add whose session is in the store.
RatingWrittenForStoredSession ==
    \A r \in Reqs : WritesRanking(r) => req[r].sid \in DOMAIN sessions

\* C27: once a session is no longer resolvable (cancelled, replaced by a
\* new upload of its owner, or expired and removed), no Add on its id
\* creates or updates a rating, also not an Add that passed the session
\* lookup before the removal and was suspended at a datastore call.
C27_NoRatingAfterRemoval == [][RatingWrittenForStoredSession]_vars

\* An Add has written its ranking row for a session that is not in the
\* store; the row is about to be committed.
RatingForRemovedSession ==
    \E r \in Reqs : /\ req[r].pc = "commit"
                    /\ req[r].rank_write # None
                    /\ req[r].sid \notin DOMAIN sessions

\* ------------------------------------------------- failure specification
\* A datastore call of the handler raises (connection lost, statement
\* error): the exception leaves add_import_movie before the session write
\* of lines 603-606, get_db rolls back, the request ends with 500.
AddFail(r) ==
    /\ PassedCheck(r)
    /\ Abort(r)

\* get_db, lines 79-82: session.commit() raises after the handler has
\* returned; the transaction is rolled back, no row reaches the tables.
AddCommitFail(r) ==
    /\ req[r].pc = "commit"
    /\ Abort(r)

\* u1 uploads, adds, skips and cancels, one request at a time; a datastore
\* call of an Add can fail.
NextAddOnly ==
    \/ AllIdle /\ \E movies \in UploadInputs : Upload("u1", movies)
    \/ AllIdle /\ \E r \in Reqs, sid \in SessionIds, i \in Indexes, rating \in Ratings :
                     AddStart(r, "u1", sid, i, rating, None)
    \/ AllIdle /\ \E sid \in SessionIds, i \in Indexes : Skip("u1", sid, i)
    \/ AllIdle /\ \E sid \in SessionIds : Cancel("u1", sid)
    \/ ContinueRequest
    \/ \E r \in Reqs : AddFail(r)

SpecAddOnly == Init /\ [][NextAddOnly]_vars

\* The same, and the commit after the handler can fail as well.
NextFail ==
    \/ NextAddOnly
    \/ \E r \in Reqs : AddCommitFail(r)

SpecFail == Init /\ [][NextFail]_vars

\* The rating of item i of session sid is committed: the owner has a
\* ranking row for a movie row with the item's catalog id.
RatingCommitted(sid, i) ==
    \E k \in db_rankings : \E m \in db_movies :
        /\ k.user_id = Owner(sid)
        /\ k.movie_id = m.id
        /\ ItemAt(sessions[sid], i).tmdb_match # None
        /\ m.tmdb_id = ItemAt(sessions[sid], i).tmdb_match[1].tmdb_id

\* An item is added only if its rating is committed or the Add that
\* marked it has returned and its commit is about to run.
AddedMeansCommitted ==
    \A sid \in DOMAIN sessions : \A i \in ItemIndexes(sid) :
        ItemAt(sessions[sid], i).status = "added" =>
            \/ RatingCommitted(sid, i)
            \/ \E r \in Reqs : /\ req[r].pc = "commit"
                               /\ req[r].sid = sid /\ req[r].index = i

\* An Add that ends without its ranking row in the table leaves its item
\* pending and outside added_count, and its last step leaves the session
\* as it is.
FailedAddLeavesPending ==
    \A r \in Reqs :
        (/\ req[r].pc # "idle"
         /\ req'[r].pc = "idle"
         /\ ~(req[r].rank_write # None /\ req[r].rank_write[1] \in db_rankings')
         /\ req[r].sid \in DOMAIN sessions')
            => /\ ItemAt(sessions'[req[r].sid], req[r].index).status = "pending"
               /\ sessions'[req[r].sid].added_count
                     = CountStatus(sessions'[req[r].sid], "added")
               /\ sessions'[req[r].sid] = sessions[req[r].sid]

\* C28: an item has status added only if its rating is committed: when an
\* Add fails at a datastore step, or its transaction fails to commit
\* after the handler returned, the item stays pending and added_count and
\* the cursor are unchanged.
C28_AddedOnlyIfCommitted == []AddedMeansCommitted /\ [][FailedAddLeavesPending]_vars

\* The commit of an Add failed: the item is added, added_count counts it,
\* and the owner has no rating.
AddedWithoutRating ==
    /\ AllIdle
    /\ db_rankings = {}
    /\ \E sid \in DOMAIN sessions : \E i \in ItemIndexes(sid) :
          /\ ItemAt(sessions[sid], i).status = "added"
          /\ sessions[sid].added_count = 1
          /\ sessions[sid].current_index = i + 1

\* ImportSessionResponse of upload_amazon_prime_csv, lines 383-391: built
\* from matched_movies, not from the stored session.
ImportSessionResponse(session_id, matched_movies) ==
    [session_id |-> session_id, ready_for_review |-> Len(matched_movies),
     movies |-> matched_movies]

\* The response of the upload that created session sid (in the cap
\* specification a session's movies_found is the length of its match
\* result).
ResponseOf(sid) ==
    ImportSessionResponse(sid, LongResult(sessions[sid].movies_found))

\* The response describes session sid: ready_for_review is the number of
\* stored items and every index of the returned list is in range for Add,
\* Skip and UpdateMatch, the last one as answered by the handlers.
ResponseDescribes(sid) ==
    LET resp == ResponseOf(sid)
        last == Len(resp.movies) - 1
    IN  /\ resp.ready_for_review = Len(sessions[sid].movies)
        /\ \A i \in 0..last : ~IndexOutOfRange(sessions[sid], i)
        /\ last >= 0 =>
              /\ add_import_movie_checks(TheStore, Owner(sid), sid, last, now).resp
                    = Response(0, "")
              /\ skip_import_movie(TheStore, Owner(sid), sid, last, now).resp
                    = Response(204, "")
              /\ \A t \in TmdbIds :
                    update_import_movie_match(TheStore, Owner(sid), sid, last, t, now).resp
                        = Response(200, "")

\* C29: the upload response describes the session it created:
\* ready_for_review is the number of items stored in the session and every
\* index of the returned movies is addressable by Add, Skip and
\* UpdateMatch, also when the match result has more than 500 items.
C29_ResponseMatchesSession == \A sid \in DOMAIN sessions : ResponseDescribes(sid)

\* Up to the cap the response describes the session; above it the
\* response lists all matched items and the session the first 500.
ResponseUpToCap ==
    \A sid \in DOMAIN sessions :
        IF sessions[sid].movies_found <= MAX_MOVIES_PER_SESSION
        THEN ResponseDescribes(sid)
        ELSE /\ ResponseOf(sid).ready_for_review = sessions[sid].movies_found
             /\ Len(sessions[sid].movies) = MAX_MOVIES_PER_SESSION
             /\ skip_import_movie(TheStore, Owner(sid), sid,
                                  MAX_MOVIES_PER_SESSION, now).resp = OutOfRange

\* An upload matched 501 items: the response announces 501, the session
\* holds 500.
ResponseLongerThanSession ==
    \E sid \in DOMAIN sessions :
        /\ ResponseOf(sid).ready_for_review = MAX_MOVIES_PER_SESSION + 1
        /\ Len(sessions[sid].movies) = MAX_MOVIES_PER_SESSION

\* The cursor of every stored session is between 0 and the number of its
\* items.
CursorInRange ==
    \A sid \in DOMAIN sessions :
        /\ sessions[sid].current_index >= 0
        /\ sessions[sid].current_index <= Len(sessions[sid].movies)

\* No step changes the number of items of a session that stays in the
\* store.
ItemCountFixed ==
    \A sid \in DOMAIN sessions \cap DOMAIN sessions' :
        Len(sessions'[sid].movies) = Len(sessions[sid].movies)

\* C30: in every reachable state of a session, after any sequence of Add,
\* Skip and UpdateMatch on its items in any order, 0 <= cursor <= number
\* of items, and the number of items never changes after the session was
\* created.
C30_CursorInRange == []CursorInRange /\ [][ItemCountFixed]_vars

\* C30 witness: the last of two items was processed, by Add, after the
\* match of the first was replaced; the cursor equals the number of items.
C30_Witness ==
    \E sid \in DOMAIN sessions :
        /\ Len(sessions[sid].movies) = 2
        /\ sessions[sid].current_index = 2
        /\ sessions[sid].movies[2].status = "added"
        /\ sessions[sid].movies[1].confidence = 100
        /\ sessions[sid].movies[1].status = "pending"
====
